---- MODULE Spec2Model ----
(***************************************************************************)
(* Model of the movesion-simulator engine: the tier calculator             *)
(* (engine/tiers.py) and the simulation engine (engine/model.py).          *)
(*                                                                         *)
(* Python floats are modelled as exact rationals [n, d] in lowest terms    *)
(* with d > 0, so that equalities and the tolerances the code and its      *)
(* tests use (0.01, 1.0) are decided exactly.                              *)
(***************************************************************************)
EXTENDS Integers, Sequences, FiniteSets, TLC

(***************************************************************************)
(* Exact rational arithmetic (the float operations of the source).         *)
(***************************************************************************)
Abs(x) == IF x < 0 THEN -x ELSE x

RECURSIVE GCD(_, _)
GCD(a, b) == IF b = 0 THEN a ELSE GCD(b, a % b)

Rat(n, d) ==
    LET g == GCD(Abs(n), Abs(d))
        s == IF d < 0 THEN -1 ELSE 1
    IN  [n |-> (s * n) \div g, d |-> (s * d) \div g]

RInt(i) == [n |-> i, d |-> 1]
RZero == RInt(0)
ROne == RInt(1)

RNeg(a) == [n |-> -a.n, d |-> a.d]

RAdd(a, b) ==
    LET g == GCD(a.d, b.d)
    IN  Rat(a.n * (b.d \div g) + b.n * (a.d \div g), (a.d \div g) * b.d)

RSub(a, b) == RAdd(a, RNeg(b))

RMul(a, b) ==
    LET g1 == GCD(Abs(a.n), b.d)
        g2 == GCD(Abs(b.n), a.d)
    IN  Rat((a.n \div g1) * (b.n \div g2), (a.d \div g2) * (b.d \div g1))

\* a / b for b # 0
RDiv(a, b) == RMul(a, Rat(b.d, b.n))

RLt(a, b) == RSub(a, b).n < 0
RLe(a, b) == RSub(a, b).n <= 0
RMax(a, b) == IF RLt(a, b) THEN b ELSE a
RMin(a, b) == IF RLt(b, a) THEN b ELSE a
RAbs(a) == [n |-> Abs(a.n), d |-> a.d]

\* Python's None
None == [none |-> TRUE]

\* The outcome of a call: a returned value, or a raised exception.
Ok(v) == [raised |-> "", val |-> v]
Raise(e) == [raised |-> e, val |-> None]

\* Python's a / b on floats
PyDiv(a, b) == IF b = RZero THEN Raise("ZeroDivisionError") ELSE Ok(RDiv(a, b))

(***************************************************************************)
(* TierCalculator (engine/tiers.py).  A tier is [up_to, price]; up_to is   *)
(* a rational or None.                                                     *)
(***************************************************************************)
Tier(u, p) == [up_to |-> u, price |-> p]

\* mutant: an exclusive upper bound
RECURSIVE apply_tiers_loop_exclusive(_, _, _)
apply_tiers_loop_exclusive(volume, tiers, i) ==
    IF i > Len(tiers) THEN 0
    ELSE IF tiers[i].up_to = None \/ RLt(volume, tiers[i].up_to) THEN i
    ELSE apply_tiers_loop_exclusive(volume, tiers, i + 1)

\* the for loop of apply_tiers: the index of the tier it returns at, 0 if
\* the loop runs out
RECURSIVE apply_tiers_loop(_, _, _)
apply_tiers_loop(volume, tiers, i) ==
    IF i > Len(tiers) THEN 0
    ELSE IF tiers[i].up_to = None \/ RLe(volume, tiers[i].up_to) THEN i
    ELSE apply_tiers_loop(volume, tiers, i + 1)

apply_tiers_match(volume, tiers) == apply_tiers_loop(volume, tiers, 1)

\* mutant: the tier's price returned without the volume
apply_tiers_price_only(volume, tiers) ==
    IF RLt(volume, RZero) THEN Raise("ValueError")
    ELSE IF Len(tiers) = 0 THEN Raise("ValueError")
    ELSE IF volume = RZero THEN Ok(RZero)
    ELSE LET i == apply_tiers_match(volume, tiers)
         IN  IF i # 0 THEN Ok(tiers[i].price)
             ELSE Ok(tiers[Len(tiers)].price)

\* mutant: volume = 0 refused together with the negative volumes
apply_tiers_rejects_zero(volume, tiers) ==
    IF RLe(volume, RZero) THEN Raise("ValueError")
    ELSE IF Len(tiers) = 0 THEN Raise("ValueError")
    ELSE LET i == apply_tiers_match(volume, tiers)
         IN  IF i # 0 THEN Ok(RMul(volume, tiers[i].price))
             ELSE Ok(RMul(volume, tiers[Len(tiers)].price))

\* mutant: volume = 0 answered before the schedule is looked at
apply_tiers_zero_first(volume, tiers) ==
    IF RLt(volume, RZero) THEN Raise("ValueError")
    ELSE IF volume = RZero THEN Ok(RZero)
    ELSE IF Len(tiers) = 0 THEN Raise("ValueError")
    ELSE LET i == apply_tiers_match(volume, tiers)
         IN  IF i # 0 THEN Ok(RMul(volume, tiers[i].price))
             ELSE Ok(RMul(volume, tiers[Len(tiers)].price))

apply_tiers(volume, tiers) ==
    IF RLt(volume, RZero) THEN Raise("ValueError")
    ELSE IF Len(tiers) = 0 THEN Raise("ValueError")
    ELSE IF volume = RZero THEN Ok(RZero)
    ELSE LET i == apply_tiers_match(volume, tiers)
         IN  IF i # 0 THEN Ok(RMul(volume, tiers[i].price))
             ELSE Ok(RMul(volume, tiers[Len(tiers)].price))

\* mutant: a band as wide as its bound, the previous bound not taken off
RECURSIVE apply_graduated_loop_wide(_, _, _, _, _)
apply_graduated_loop_wide(tiers, i, total_cost, remaining, previous_up_to) ==
    IF i > Len(tiers) THEN total_cost
    ELSE IF tiers[i].up_to = None
         THEN RAdd(total_cost, RMul(remaining, tiers[i].price))
    ELSE LET tier_volume == RMin(remaining, tiers[i].up_to)
             charged == RLt(RZero, tier_volume)
             total2 == IF charged
                       THEN RAdd(total_cost, RMul(tier_volume, tiers[i].price))
                       ELSE total_cost
             remaining2 == IF charged THEN RSub(remaining, tier_volume)
                           ELSE remaining
         IN  IF RLe(remaining2, RZero) THEN total2
             ELSE apply_graduated_loop_wide(tiers, i + 1, total2, remaining2,
                                            tiers[i].up_to)

\* the for loop of apply_graduated_tiers over tiers[i..], carrying
\* total_cost, remaining and previous_up_to
RECURSIVE apply_graduated_loop(_, _, _, _, _)
apply_graduated_loop(tiers, i, total_cost, remaining, previous_up_to) ==
    IF i > Len(tiers) THEN total_cost
    ELSE IF tiers[i].up_to = None
         THEN RAdd(total_cost, RMul(remaining, tiers[i].price))
    ELSE LET tier_volume == RMin(remaining, RSub(tiers[i].up_to, previous_up_to))
             charged == RLt(RZero, tier_volume)
             total2 == IF charged
                       THEN RAdd(total_cost, RMul(tier_volume, tiers[i].price))
                       ELSE total_cost
             remaining2 == IF charged THEN RSub(remaining, tier_volume)
                           ELSE remaining
         IN  IF RLe(remaining2, RZero) THEN total2
             ELSE apply_graduated_loop(tiers, i + 1, total2, remaining2,
                                       tiers[i].up_to)

\* mutant: the whole volume charged at the price of the tier it falls in
apply_graduated_as_step(volume, tiers) == apply_tiers(volume, tiers)

apply_graduated_tiers(volume, tiers) ==
    IF RLt(volume, RZero) THEN Raise("ValueError")
    ELSE IF Len(tiers) = 0 THEN Raise("ValueError")
    ELSE IF volume = RZero THEN Ok(RZero)
    ELSE Ok(apply_graduated_loop(tiers, 1, RZero, volume, RZero))

RECURSIVE get_effective_rate_loop(_, _, _)
get_effective_rate_loop(volume, tiers, i) ==
    IF i > Len(tiers) THEN 0
    ELSE IF tiers[i].up_to = None \/ RLe(volume, tiers[i].up_to) THEN i
    ELSE get_effective_rate_loop(volume, tiers, i + 1)

get_effective_rate(volume, tiers) ==
    IF RLe(volume, RZero)
    THEN IF Len(tiers) > 0 THEN Ok(tiers[1].price) ELSE Ok(RZero)
    ELSE LET i == get_effective_rate_loop(volume, tiers, 1)
         IN  IF i # 0 THEN Ok(tiers[i].price)
             ELSE IF Len(tiers) = 0 THEN Raise("IndexError")
             ELSE Ok(tiers[Len(tiers)].price)

RECURSIVE find_tier_index_loop(_, _, _)
find_tier_index_loop(volume, tiers, i) ==
    IF i > Len(tiers) THEN 0
    ELSE IF tiers[i].up_to = None \/ RLe(volume, tiers[i].up_to) THEN i
    ELSE find_tier_index_loop(volume, tiers, i + 1)

\* the zero-based index the source returns (len(tiers) - 1 when no tier matches)
find_tier_index(volume, tiers) ==
    LET i == find_tier_index_loop(volume, tiers, 1)
    IN  IF i # 0 THEN Ok(i - 1) ELSE Ok(Len(tiers) - 1)

(***************************************************************************)
(* Python dict and list helpers.                                           *)
(***************************************************************************)
\* d.get(k, default)
DictGet(d, k, default) == IF k \in DOMAIN d THEN d[k] ELSE default

\* the empty dict
EmptyDict == [k \in {} |-> None]

\* rows[:h] (h may be negative, as in Python)
SlicePrefix(s, h) ==
    LET n == IF h >= 0 THEN (IF h < Len(s) THEN h ELSE Len(s))
             ELSE (IF Len(s) + h > 0 THEN Len(s) + h ELSE 0)
    IN  SubSeq(s, 1, n)

\* rows[a:b] for 0 <= a <= b
Slice(s, a, b) ==
    SubSeq(s, a + 1, IF b < Len(s) THEN b ELSE Len(s))

\* sum(...) over a list of numbers, left to right
RECURSIVE SumFrom(_, _)
SumFrom(s, i) ==
    IF i > Len(s) THEN RZero ELSE RAdd(s[i], SumFrom(s, i + 1))

Sum(s) == SumFrom(s, 1)

\* the list [r.f for r in rows]
Column(rows, f) == [i \in 1..Len(rows) |-> rows[i][f]]

\* the sum of the values of a dict of numbers (a sum of rationals does not
\* depend on the order of its terms)
RECURSIVE SumOver(_, _)
SumOver(d, K) ==
    IF K = {} THEN RZero
    ELSE LET k == CHOOSE x \in K : TRUE
         IN  RAdd(d[k], SumOver(d, K \ {k}))

SumValues(d) == SumOver(d, DOMAIN d)

(***************************************************************************)
(* The pricing plan the engine is constructed from: the shape of the       *)
(* plan the source reads (fixed_monthly, optional_features,                *)
(* variable_monthly, event_fees, physical_cards) with small amounts.       *)
(***************************************************************************)
FixedFee(k, a, man, ebd) ==
    [key |-> k, amount |-> a, mandatory |-> man, enabled_by_default |-> ebd]

EventFee(k, a, man, ebd) ==
    [key |-> k, amount |-> a, mandatory |-> man, enabled_by_default |-> ebd]

ActiveCardTiers ==
    << Tier(RInt(6), ROne), Tier(RInt(12), Rat(3, 4)), Tier(None, Rat(1, 2)) >>

EeaTiers == << Tier(RInt(8), Rat(1, 4)), Tier(None, Rat(1, 8)) >>

NonEeaTiers == << Tier(None, Rat(1, 2)) >>

ThreeDsTiers == << Tier(RInt(4), Rat(1, 2)), Tier(None, Rat(1, 4)) >>

OptionalFeatures ==
    [ dedicated_bin |->
        [key |-> "dedicated_bin", setup |-> RInt(40), monthly |-> RInt(4),
         enabled_by_default |-> FALSE],
      apple_pay |->
        [setup |-> RInt(10), enabled_by_default |-> TRUE],
      data_enrichment |->
        [key |-> "data_enrichment", monthly |-> RInt(2)] ]

BasePlan ==
    [ id |-> "wallester",
      fixed_monthly |->
        << FixedFee("program_maintenance", RInt(24), TRUE, TRUE),
           FixedFee("additional_program", RInt(6), FALSE, FALSE),
           FixedFee("reporting", RInt(2), FALSE, TRUE) >>,
      optional_features |-> OptionalFeatures,
      variable_monthly |->
        [ active_cards |-> [tiers |-> ActiveCardTiers],
          authorizations |-> [ eea |-> [tiers |-> EeaTiers],
                               non_eea |-> [tiers |-> NonEeaTiers] ],
          three_ds |-> [tiers |-> ThreeDsTiers] ],
      event_fees |->
        << EventFee("card_issue", Rat(1, 2), TRUE, TRUE),
           EventFee("plastic_personalization", ROne, FALSE, FALSE),
           EventFee("kyc_attempt", Rat(1, 2), FALSE, FALSE),
           EventFee("account_documents", Rat(1, 4), FALSE, FALSE),
           EventFee("dispute", RInt(2), FALSE, FALSE),
           EventFee("sms", Rat(1, 4), FALSE, TRUE),
           EventFee("pin_change", Rat(1, 2), FALSE, FALSE),
           EventFee("account_closure", ROne, FALSE, FALSE) >>,
      physical_cards |->
        [ manufacturing |->
            [tiers |-> << [min_batch |-> 2, max_batch |-> RInt(4), price |-> RInt(2)],
                          [min_batch |-> 5, max_batch |-> None, price |-> ROne] >>],
          delivery |->
            [methods |-> << [key |-> "dhl_tracked", price |-> RInt(3)],
                            [key |-> "post", price |-> ROne] >>,
             default_method |-> "dhl_tracked"] ] ]

\* SimulationEngine.__init__: the index of the event fees by key
EventFeesMap(plan) ==
    LET fees == DictGet(plan, "event_fees", << >>)
        keys == {fees[i].key : i \in 1..Len(fees)}
        \* a dict comprehension keeps the last entry of a repeated key
        last(k) == CHOOSE i \in 1..Len(fees) :
                      /\ fees[i].key = k
                      /\ \A j \in 1..Len(fees) : fees[j].key = k => j <= i
    IN  [k \in keys |-> fees[last(k)]]

(***************************************************************************)
(* State.                                                                  *)
(***************************************************************************)
VARIABLES
    pricing_plan,          \* SimulationEngine.pricing_plan
    event_fees_map,        \* SimulationEngine._event_fees_map
    optional_features,     \* SimulationEngine._optional_features
    scenario,              \* the argument of the simulate call
    pc,                    \* where the simulate call is
    rows,                  \* simulate: rows
    active,                \* simulate: active
    cumulative_profit,     \* simulate: cumulative_profit
    m,                     \* simulate: the month the loop is at
    one_offs_by_month,     \* simulate: one_offs_by_month
    fixed_monthly_total,   \* simulate: fixed_monthly_total
    required_employee_fee, \* simulate: required_employee_fee
    row_index,             \* simulate: the row the second pass is at
    result,                \* what simulate returned, or None
    error,                 \* the exception simulate raised, or ""
    t_volume,              \* a TierCalculator call: volume
    t_tiers,               \* a TierCalculator call: tiers
    t_out,                 \* the outcome of each TierCalculator function called
    other,                 \* a second simulate call on the engine, suspended
    calls,                 \* the simulate calls made on the engine so far
    alone,                 \* scenario -> outcome of a call that ran on its own
    interleaved,           \* whether the call ran interleaved with the other
    endpoint,              \* the route of the request being handled, or ""
    pending,               \* the scenarios the handler has still to simulate
    status                 \* the HTTP status of the response, 0 before it

engine_vars == << pricing_plan, event_fees_map, optional_features >>
call_vars == << scenario, pc, rows, active, cumulative_profit, m,
                one_offs_by_month, fixed_monthly_total, required_employee_fee,
                row_index, result, error >>
tier_vars == << t_volume, t_tiers, t_out >>
caller_vars == << other, calls, alone, interleaved, endpoint, pending, status >>
vars == << engine_vars, call_vars, tier_vars, caller_vars >>

(***************************************************************************)
(* simulate: the scenario parameters (model.py lines 50-89).               *)
(***************************************************************************)
\* mutant: only the sections and the starting card count looked up before
\* the loop
required_present_sections(sc) ==
    /\ {"horizon_months", "adoption", "usage", "commercial", "toggles"}
          \subseteq DOMAIN sc
    /\ "start_active_cards" \in DOMAIN sc.adoption

RequiredPresent(sc) ==
    /\ {"horizon_months", "adoption", "usage", "commercial", "toggles"}
          \subseteq DOMAIN sc
    /\ "start_active_cards" \in DOMAIN sc.adoption
    /\ {"spend_per_active_card_month", "in_app_share", "avg_ticket", "ecom_share"}
          \subseteq DOMAIN sc.usage
    /\ {"partner_fee_pct", "interchange_pct", "b2b"} \subseteq DOMAIN sc.commercial

months == scenario.horizon_months
toggles == scenario.toggles
ops == DictGet(scenario, "ops_assumptions", EmptyDict)
issuance == DictGet(scenario, "issuance", EmptyDict)
start_active == scenario.adoption.start_active_cards
net_adds == DictGet(scenario.adoption, "monthly_net_adds", RZero)
churn_rate == DictGet(scenario.adoption, "churn_rate", RZero)
spend_per_active == scenario.usage.spend_per_active_card_month
in_app_share == scenario.usage.in_app_share
avg_ticket == scenario.usage.avg_ticket
ecom_share == scenario.usage.ecom_share
three_ds_attempt_rate == DictGet(scenario.usage, "three_ds_attempt_rate", ROne)
eea_share == DictGet(scenario.usage, "eea_share", Rat(95, 100))
auth_multiplier == DictGet(scenario.usage, "auth_multiplier", ROne)
partner_fee_pct == scenario.commercial.partner_fee_pct
interchange_pct == scenario.commercial.interchange_pct
b2b == scenario.commercial.b2b
companies == DictGet(b2b, "companies", ROne)
platform_fee_company_month == DictGet(b2b, "platform_fee_company_month", RZero)
employee_fee_month == DictGet(b2b, "employee_fee_month", RZero)
b2b_mode == DictGet(b2b, "mode", "given")
target == DictGet(b2b, "target", [type |-> "breakeven", months |-> 12])
target_months == DictGet(target, "months", 12)
target_type == DictGet(target, "type", "breakeven")
physical_share == DictGet(issuance, "physical_share_issued", RZero)
issued_equals_net_adds == DictGet(issuance, "issued_equals_net_adds", TRUE)
variable == DictGet(pricing_plan, "variable_monthly", EmptyDict)

(***************************************************************************)
(* _compute_one_offs and _compute_fixed_monthly.                           *)
(***************************************************************************)
\* toggles.get(feature.get("key", key), feature.get("enabled_by_default", False))
FeatureEnabled(tg, key) ==
    LET feature == optional_features[key]
    IN  DictGet(tg, DictGet(feature, "key", key),
                DictGet(feature, "enabled_by_default", FALSE))

\* mutant: the setup costs charged in every month of the horizon
compute_one_offs_every_month(mths, tg) ==
    LET charged == {k \in DOMAIN optional_features :
                       /\ FeatureEnabled(tg, k)
                       /\ RLt(RZero, DictGet(optional_features[k], "setup", RZero))}
        setups == [k \in charged |-> optional_features[k].setup]
    IN  IF charged = {} THEN EmptyDict
        ELSE [mm \in 1..mths |-> SumValues(setups)]

_compute_one_offs(mths, tg) ==
    LET charged == {k \in DOMAIN optional_features :
                       /\ FeatureEnabled(tg, k)
                       /\ RLt(RZero, DictGet(optional_features[k], "setup", RZero))}
        setups == [k \in charged |-> optional_features[k].setup]
    IN  IF charged = {} THEN EmptyDict
        ELSE [mm \in {1} |-> SumValues(setups)]

\* mutant: the mandatory flag of a fixed fee ignored
compute_fixed_monthly_no_mandatory(tg) ==
    LET items == DictGet(pricing_plan, "fixed_monthly", << >>)
        fees == [i \in 1..Len(items) |->
                   IF DictGet(tg, items[i].key,
                              DictGet(items[i], "enabled_by_default", FALSE))
                   THEN items[i].amount ELSE RZero]
        monthly == [k \in {x \in DOMAIN optional_features : FeatureEnabled(tg, x)}
                      |-> DictGet(optional_features[k], "monthly", RZero)]
    IN  RAdd(Sum(fees), SumValues(monthly))

_compute_fixed_monthly(tg) ==
    LET items == DictGet(pricing_plan, "fixed_monthly", << >>)
        fees == [i \in 1..Len(items) |->
                   IF \/ DictGet(items[i], "mandatory", FALSE)
                      \/ DictGet(tg, items[i].key,
                                 DictGet(items[i], "enabled_by_default", FALSE))
                   THEN items[i].amount ELSE RZero]
        monthly == [k \in {x \in DOMAIN optional_features : FeatureEnabled(tg, x)}
                      |-> DictGet(optional_features[k], "monthly", RZero)]
    IN  RAdd(Sum(fees), SumValues(monthly))

(***************************************************************************)
(* _compute_event_costs and _compute_physical_costs.                       *)
(***************************************************************************)
\* mutant: the mandatory flag of an event fee ignored
is_enabled_toggle_only(tg, key) ==
    LET event_fees == DictGet(tg, "event_fees", EmptyDict)
        fee_config == DictGet(event_fees_map, key, EmptyDict)
    IN  DictGet(event_fees, key, DictGet(fee_config, "enabled_by_default", FALSE))

\* is_enabled(key) of _compute_event_costs
is_enabled(tg, key) ==
    LET event_fees == DictGet(tg, "event_fees", EmptyDict)
        fee_config == DictGet(event_fees_map, key, EmptyDict)
    IN  IF DictGet(fee_config, "mandatory", FALSE) THEN TRUE
        ELSE DictGet(event_fees, key,
                     DictGet(fee_config, "enabled_by_default", FALSE))

\* one "cost += units * amount" step, taken when cond holds and the fee is in the plan
EventTerm(cond, key, units) ==
    IF cond /\ key \in DOMAIN event_fees_map
    THEN RMul(units, event_fees_map[key].amount)
    ELSE RZero

_compute_event_costs(tg, op, issued, issued_physical, tx, act, churned) ==
    LET pos(x) == RLt(RZero, x)
        terms ==
          << EventTerm(TRUE, "card_issue", issued),
             EventTerm(pos(issued_physical) /\ is_enabled(tg, "plastic_personalization"),
                       "plastic_personalization", issued_physical),
             EventTerm(pos(issued) /\ is_enabled(tg, "kyc_attempt"), "kyc_attempt",
                       RMul(issued, DictGet(op, "kyc_attempts_per_new_user", ROne))),
             EventTerm(pos(issued) /\ is_enabled(tg, "account_documents"),
                       "account_documents",
                       RMul(issued, DictGet(op, "doc_confirm_rate_per_new_user", RZero))),
             EventTerm(is_enabled(tg, "dispute"), "dispute",
                       RMul(tx, DictGet(op, "dispute_rate_per_tx", RZero))),
             EventTerm(is_enabled(tg, "sms"), "sms",
                       RMul(act, DictGet(op, "sms_per_active_user_month", RZero))),
             EventTerm(is_enabled(tg, "pin_change"), "pin_change",
                       RMul(act, DictGet(op, "pin_changes_per_active_user_month", RZero))),
             EventTerm(is_enabled(tg, "account_closure"), "account_closure",
                       RMul(churned, DictGet(op, "closures_per_churned_user", RZero))) >>
    IN  Sum(terms)

\* the manufacturing tier loop: the index of the first tier whose band holds
\* issued_physical, 0 if none does
RECURSIVE manufacturing_loop(_, _, _)
manufacturing_loop(tiers, issued_physical, i) ==
    IF i > Len(tiers) THEN 0
    ELSE LET min_batch == DictGet(tiers[i], "min_batch",
                                  DictGet(tiers[i], "min", 0))
             max_batch == DictGet(tiers[i], "max_batch",
                                  DictGet(tiers[i], "max", None))
         IN  IF /\ RLe(RInt(min_batch), issued_physical)
                /\ (max_batch = None \/ RLe(issued_physical, max_batch))
             THEN i
             ELSE manufacturing_loop(tiers, issued_physical, i + 1)

manufacturing_cost(tg, issued_physical) ==
    IF ~DictGet(tg, "physical_manufacturing", FALSE) THEN RZero
    ELSE LET physical_config == DictGet(pricing_plan, "physical_cards", EmptyDict)
             mfg_config == DictGet(physical_config, "manufacturing", EmptyDict)
             tiers == DictGet(mfg_config, "tiers", << >>)
             i == manufacturing_loop(tiers, issued_physical, 1)
             found == IF i = 0 THEN RZero ELSE tiers[i].price
             price == IF found = RZero /\ Len(tiers) > 0 THEN tiers[1].price
                      ELSE found
         IN  RMul(issued_physical, price)

delivery_cost(tg, issued_physical) ==
    IF ~DictGet(tg, "physical_delivery", FALSE) THEN RZero
    ELSE LET physical_config == DictGet(pricing_plan, "physical_cards", EmptyDict)
             delivery_config == DictGet(physical_config, "delivery", EmptyDict)
             methods == DictGet(delivery_config, "methods", << >>)
             default_method == DictGet(delivery_config, "default_method", "dhl_tracked")
             method_key == DictGet(tg, "delivery_method", default_method)
             hits == {i \in 1..Len(methods) : methods[i].key = method_key}
             first == CHOOSE i \in hits : \A j \in hits : i <= j
         IN  IF hits # {} THEN RMul(issued_physical, methods[first].price)
             ELSE IF Len(methods) > 0 THEN RMul(issued_physical, methods[1].price)
             ELSE RZero

_compute_physical_costs(tg, issued_physical) ==
    IF RLe(issued_physical, RZero) THEN RZero
    ELSE RAdd(manufacturing_cost(tg, issued_physical),
              delivery_cost(tg, issued_physical))

(***************************************************************************)
(* simulate: one iteration of the monthly loop (model.py lines 105-210).   *)
(***************************************************************************)
\* mutant: churn applied after the net adds
next_active_adds_first(act) ==
    LET grown == RAdd(act, net_adds)
    IN  RMax(RZero, RSub(grown, RMul(grown, churn_rate)))

\* active = max(0.0, active - churned + net_adds)
next_active(act) ==
    LET churned == RMul(act, churn_rate)
    IN  RMax(RZero, RAdd(RSub(act, churned), net_adds))

\* mutant: the B2B revenue of 'given' mode without the platform fee
b2b_rev_no_platform(act, fee) == RMul(act, fee)

\* mutant: the employee fee charged on the starting card count
b2b_rev_start_active(act, fee) ==
    RAdd(RMul(companies, platform_fee_company_month), RMul(start_active, fee))

\* companies * platform_fee_company_month + active * fee
b2b_rev_of(act, fee) ==
    RAdd(RMul(companies, platform_fee_company_month), RMul(act, fee))

\* the body of the loop for month mm, entered with active = act and
\* cumulative_profit = cum: the exception an apply_tiers call raised (or ""),
\* the new active count and the row appended
MonthBody(act, cum, mm) ==
    LET churned == RMul(act, churn_rate)
        act2 == next_active(act)
        issued == RMax(RZero, IF issued_equals_net_adds THEN net_adds ELSE RZero)
        issued_physical == RMul(issued, physical_share)
        issued_virtual == RSub(issued, issued_physical)
        total_spend == RMul(act2, spend_per_active)
        in_app_spend == RMul(total_spend, in_app_share)
        tx == IF RLe(avg_ticket, RZero) THEN RZero
              ELSE RMul(RDiv(total_spend, avg_ticket), auth_multiplier)
        eea_auth == RMul(tx, eea_share)
        non_eea_auth == RSub(tx, eea_auth)
        ecom_tx == RMul(tx, ecom_share)
        three_ds_attempts == RMul(ecom_tx, three_ds_attempt_rate)
        partner_rev == RMul(in_app_spend, partner_fee_pct)
        interchange_rev == RMul(total_spend, interchange_pct)
        active_cards_config == DictGet(variable, "active_cards", EmptyDict)
        active_call == apply_tiers(act2, DictGet(active_cards_config, "tiers", << >>))
        auth_config == DictGet(variable, "authorizations", EmptyDict)
        eea_tiers == DictGet(DictGet(auth_config, "eea", EmptyDict), "tiers", << >>)
        non_eea_tiers ==
            DictGet(DictGet(auth_config, "non_eea", EmptyDict), "tiers", << >>)
        eea_call == apply_tiers(eea_auth, eea_tiers)
        non_eea_call == apply_tiers(non_eea_auth, non_eea_tiers)
        three_ds_config == DictGet(variable, "three_ds", EmptyDict)
        three_ds_call ==
            apply_tiers(three_ds_attempts, DictGet(three_ds_config, "tiers", << >>))
        raised == IF active_call.raised # "" THEN active_call.raised
                  ELSE IF eea_call.raised # "" THEN eea_call.raised
                  ELSE IF non_eea_call.raised # "" THEN non_eea_call.raised
                  ELSE three_ds_call.raised
        active_cost == active_call.val
        auth_cost == RAdd(eea_call.val, non_eea_call.val)
        three_ds_cost == three_ds_call.val
        fixed_cost == fixed_monthly_total
        one_off == DictGet(one_offs_by_month, mm, RZero)
        event_cost == _compute_event_costs(toggles, ops, issued, issued_physical,
                                           tx, act2, churned)
        physical_cost == _compute_physical_costs(toggles, issued_physical)
        costs_excl_b2b ==
            Sum(<< fixed_cost, one_off, active_cost, auth_cost, three_ds_cost,
                   event_cost, physical_cost >>)
        rev_excl_b2b == RAdd(partner_rev, interchange_rev)
        b2b_rev == IF b2b_mode = "given" THEN b2b_rev_of(act2, employee_fee_month)
                   ELSE RZero
        total_rev == RAdd(rev_excl_b2b, b2b_rev)
        profit == RSub(total_rev, costs_excl_b2b)
        cum2 == RAdd(cum, profit)
    IN  IF raised # "" THEN [raised |-> raised, active |-> act2, row |-> None]
        ELSE [ raised |-> "",
               active |-> act2,
               row |-> [ month |-> mm,
                         active_cards |-> act2,
                         issued_cards |-> issued,
                         issued_physical |-> issued_physical,
                         issued_virtual |-> issued_virtual,
                         total_spend |-> total_spend,
                         in_app_spend |-> in_app_spend,
                         tx_count |-> tx,
                         eea_auth |-> eea_auth,
                         non_eea_auth |-> non_eea_auth,
                         three_ds_attempts |-> three_ds_attempts,
                         rev_partner |-> partner_rev,
                         rev_interchange |-> interchange_rev,
                         rev_b2b |-> b2b_rev,
                         cost_fixed |-> fixed_cost,
                         cost_oneoff |-> one_off,
                         cost_active_cards |-> active_cost,
                         cost_auth |-> auth_cost,
                         cost_3ds |-> three_ds_cost,
                         cost_events |-> event_cost,
                         cost_physical |-> physical_cost,
                         total_revenue |-> total_rev,
                         total_costs |-> costs_excl_b2b,
                         profit |-> profit,
                         cumulative_profit |-> cum2,
                         costs_excl_b2b |-> costs_excl_b2b,
                         rev_excl_b2b |-> rev_excl_b2b ] ]

(***************************************************************************)
(* _solve_employee_fee and _calculate_kpis.                                *)
(***************************************************************************)
\* mutant: the quotient returned without the max(0.0, ...)
solve_employee_fee_no_clamp(rs, comp, pf, tmonths, ttype, tgt) ==
    LET horizon == IF tmonths < Len(rs) THEN tmonths ELSE Len(rs)
        window == SlicePrefix(rs, horizon)
        total_costs == Sum(Column(window, "costs_excl_b2b"))
        total_rev == Sum(Column(window, "rev_excl_b2b"))
        total_active_months == Sum(Column(window, "active_cards"))
        platform_component == RMul(RMul(comp, pf), RInt(horizon))
        target_profit_total ==
            IF ttype = "profit" THEN DictGet(tgt, "amount", RZero)
            ELSE IF ttype = "margin"
                 THEN RMul(total_rev, DictGet(tgt, "amount", RZero))
            ELSE RZero
        needed_b2b_total ==
            RSub(RAdd(RSub(total_costs, total_rev), target_profit_total),
                 platform_component)
    IN  IF RLe(total_active_months, RZero) THEN Ok(RZero)
        ELSE PyDiv(needed_b2b_total, total_active_months)

\* mutant: the sums taken over every row instead of rows[:horizon]
solve_employee_fee_all_rows(rs, comp, pf, tmonths, ttype, tgt) ==
    LET horizon == IF tmonths < Len(rs) THEN tmonths ELSE Len(rs)
        total_costs == Sum(Column(rs, "costs_excl_b2b"))
        total_rev == Sum(Column(rs, "rev_excl_b2b"))
        total_active_months == Sum(Column(rs, "active_cards"))
        platform_component == RMul(RMul(comp, pf), RInt(horizon))
        target_profit_total ==
            IF ttype = "profit" THEN DictGet(tgt, "amount", RZero)
            ELSE IF ttype = "margin"
                 THEN RMul(total_rev, DictGet(tgt, "amount", RZero))
            ELSE RZero
        needed_b2b_total ==
            RSub(RAdd(RSub(total_costs, total_rev), target_profit_total),
                 platform_component)
    IN  IF RLe(total_active_months, RZero) THEN Ok(RZero)
        ELSE LET q == PyDiv(needed_b2b_total, total_active_months)
             IN  IF q.raised # "" THEN q ELSE Ok(RMax(RZero, q.val))

\* mutant: the fee solved for a target profit of zero, whatever the target
solve_employee_fee_ignores_target(rs, comp, pf, tmonths, ttype, tgt) ==
    LET horizon == IF tmonths < Len(rs) THEN tmonths ELSE Len(rs)
        window == SlicePrefix(rs, horizon)
        total_costs == Sum(Column(window, "costs_excl_b2b"))
        total_rev == Sum(Column(window, "rev_excl_b2b"))
        total_active_months == Sum(Column(window, "active_cards"))
        platform_component == RMul(RMul(comp, pf), RInt(horizon))
        needed_b2b_total ==
            RSub(RSub(total_costs, total_rev), platform_component)
    IN  IF RLe(total_active_months, RZero) THEN Ok(RZero)
        ELSE LET q == PyDiv(needed_b2b_total, total_active_months)
             IN  IF q.raised # "" THEN q ELSE Ok(RMax(RZero, q.val))

_solve_employee_fee(rs, comp, pf, tmonths, ttype, tgt) ==
    LET horizon == IF tmonths < Len(rs) THEN tmonths ELSE Len(rs)
        window == SlicePrefix(rs, horizon)
        total_costs == Sum(Column(window, "costs_excl_b2b"))
        total_rev == Sum(Column(window, "rev_excl_b2b"))
        total_active_months == Sum(Column(window, "active_cards"))
        platform_component == RMul(RMul(comp, pf), RInt(horizon))
        target_profit_total ==
            IF ttype = "profit" THEN DictGet(tgt, "amount", RZero)
            ELSE IF ttype = "margin"
                 THEN RMul(total_rev, DictGet(tgt, "amount", RZero))
            ELSE RZero
        needed_b2b_total ==
            RSub(RAdd(RSub(total_costs, total_rev), target_profit_total),
                 platform_component)
    IN  IF RLe(total_active_months, RZero) THEN Ok(RZero)
        ELSE LET q == PyDiv(needed_b2b_total, total_active_months)
             IN  IF q.raised # "" THEN q ELSE Ok(RMax(RZero, q.val))

\* the -0.01 of the breakeven loop and the 1.0 of the profit status
NegativeThreshold == Rat(-1, 100)
\* mutant: no tolerance around zero
no_balanced_tolerance == RZero

BalancedTolerance == ROne

\* mutant: the first month with a non-negative cumulative profit, whether
\* or not an earlier month was negative
RECURSIVE breakeven_loop_any(_, _, _)
breakeven_loop_any(rs, i, was_negative) ==
    IF i > Len(rs) THEN None
    ELSE IF RLt(rs[i].cumulative_profit, NegativeThreshold)
         THEN breakeven_loop_any(rs, i + 1, TRUE)
    ELSE IF RLe(RZero, rs[i].cumulative_profit)
         THEN RInt(rs[i].month)
    ELSE breakeven_loop_any(rs, i + 1, was_negative)

\* the breakeven loop from row i on: the month it breaks at, or None
RECURSIVE breakeven_loop(_, _, _)
breakeven_loop(rs, i, was_negative) ==
    IF i > Len(rs) THEN None
    ELSE IF RLt(rs[i].cumulative_profit, NegativeThreshold)
         THEN breakeven_loop(rs, i + 1, TRUE)
    ELSE IF was_negative /\ RLe(RZero, rs[i].cumulative_profit)
         THEN RInt(rs[i].month)
    ELSE breakeven_loop(rs, i + 1, was_negative)

\* mutant: a year reported as soon as the horizon reaches into it
covers_year_partly(mths, year) == mths > 12 * (year - 1)

\* "if months >= 24" and "if months >= 36": the horizon covers the year
covers_year(mths, year) == mths >= 12 * year

\* mutant: solved only when the solved fee is above zero
is_solved_when_charged(fee) == fee # None /\ RLt(RZero, fee)

\* is_solved_breakeven = required_employee_fee is not None
is_solved_breakeven_of(fee) == fee # None

_calculate_kpis(rs, mths, fee) ==
    LET total_revenue == Sum(Column(rs, "total_revenue"))
        total_costs == Sum(Column(rs, "total_costs"))
        total_profit == Sum(Column(rs, "profit"))
    IN  [ breakeven_month |-> breakeven_loop(rs, 1, FALSE),
          profit_year1 |-> Sum(Column(Slice(rs, 0, 12), "profit")),
          profit_year2 |-> IF covers_year(mths, 2)
                           THEN Sum(Column(Slice(rs, 12, 24), "profit")) ELSE None,
          profit_year3 |-> IF covers_year(mths, 3)
                           THEN Sum(Column(Slice(rs, 24, 36), "profit")) ELSE None,
          required_employee_fee_month |-> fee,
          total_revenue |-> total_revenue,
          total_costs |-> total_costs,
          total_profit |-> total_profit,
          avg_monthly_profit |-> IF Len(rs) > 0
                                 THEN RDiv(total_profit, RInt(Len(rs))) ELSE RZero,
          roi_percent |-> IF RLt(RZero, total_costs)
                          THEN RMul(RDiv(total_profit, total_costs), RInt(100))
                          ELSE None,
          profit_status |-> IF RLt(RAbs(total_profit), BalancedTolerance)
                            THEN "balanced"
                            ELSE IF RLt(RZero, total_profit) THEN "profitable"
                            ELSE "loss",
          is_solved_breakeven |-> is_solved_breakeven_of(fee) ]

(***************************************************************************)
(* The scenarios simulate is called with.                                  *)
(***************************************************************************)
MaxHorizon == 3
MaxVolume == 7

EventToggles ==
    [ card_issue |-> TRUE, plastic_personalization |-> TRUE, kyc_attempt |-> TRUE,
      account_documents |-> FALSE, dispute |-> FALSE, pin_change |-> FALSE,
      account_closure |-> TRUE ]

\* the toggles every scenario carries; the feature toggles come on top
CommonToggles ==
    [ event_fees |-> EventToggles, physical_manufacturing |-> TRUE,
      physical_delivery |-> TRUE, delivery_method |-> "post" ]

OpsAssumptions ==
    [ kyc_attempts_per_new_user |-> ROne,
      doc_confirm_rate_per_new_user |-> Rat(1, 2),
      dispute_rate_per_tx |-> Rat(1, 8),
      sms_per_active_user_month |-> ROne,
      pin_changes_per_active_user_month |-> Rat(1, 2),
      closures_per_churned_user |-> ROne ]

Usage(spend, ticket) ==
    [ spend_per_active_card_month |-> spend, in_app_share |-> Rat(1, 2),
      avg_ticket |-> ticket, ecom_share |-> Rat(1, 2),
      three_ds_attempt_rate |-> ROne, eea_share |-> Rat(1, 2),
      auth_multiplier |-> ROne ]

Scenario(h, adoption, usage, partner, b2bcfg, tg) ==
    [ name |-> "Test Scenario",
      horizon_months |-> h,
      adoption |-> adoption,
      issuance |-> [physical_share_issued |-> Rat(1, 2),
                    issued_equals_net_adds |-> TRUE],
      usage |-> usage,
      commercial |-> [partner_fee_pct |-> partner, interchange_pct |-> Rat(1, 16),
                      b2b |-> b2bcfg],
      toggles |-> tg @@ CommonToggles,
      ops_assumptions |-> OpsAssumptions ]

Horizons == 1..MaxHorizon

Adoptions ==
    { [start_active_cards |-> RInt(st), monthly_net_adds |-> RInt(na),
       churn_rate |-> ch] :
        st \in {0, 8}, na \in {-6, 0, 6}, ch \in {RZero, Rat(1, 2)} }

\* a negative spend and a zero ticket are what the guards of the loop are for
Usages == { Usage(RInt(10), RInt(5)), Usage(RInt(-10), RInt(5)),
            Usage(RInt(10), RZero) }

PartnerFees == { Rat(1, 4), ROne }

GivenB2B ==
    { [companies |-> RInt(2), platform_fee_company_month |-> RInt(5),
       employee_fee_month |-> fee, mode |-> "given",
       target |-> [type |-> "breakeven", months |-> 12]] :
        fee \in {RZero, RInt(3)} }

SolveB2B ==
    { [companies |-> RInt(2), platform_fee_company_month |-> pf,
       employee_fee_month |-> RInt(3), mode |-> "solve_employee_fee",
       target |-> [type |-> ty, months |-> tm, amount |-> Rat(1, 4)]] :
        pf \in {RZero, RInt(5)}, ty \in {"breakeven", "profit", "margin"},
        tm \in {1, MaxHorizon} }

\* mode strings that are neither 'given' nor 'solve_employee_fee'
OtherModes == {"auto", ""}

OtherB2B ==
    { [companies |-> RInt(2), platform_fee_company_month |-> RInt(5),
       employee_fee_month |-> RInt(3), mode |-> md,
       target |-> [type |-> "breakeven", months |-> tm]] :
        md \in OtherModes, tm \in {1, MaxHorizon} }

\* every feature toggle explicit and off (the mandatory fee's toggle on)
TogglesOff ==
    [ program_maintenance |-> TRUE, additional_program |-> FALSE,
      reporting |-> FALSE, dedicated_bin |-> FALSE, apple_pay |-> FALSE,
      data_enrichment |-> FALSE ]

\* a toggle dict holding, of each key, one of the given values or nothing
RECURSIVE DictsOver(_, _)
DictsOver(choices, K) ==
    IF K = {} THEN {EmptyDict}
    ELSE LET k == CHOOSE x \in K : TRUE
             rest == DictsOver(choices, K \ {k})
         IN  rest \cup { [x \in {k} |-> v] @@ d : v \in choices[k], d \in rest }

\* what each feature toggle may be set to (it may also be absent, and then
\* the plan's enabled_by_default decides)
ToggleChoices ==
    [ program_maintenance |-> {FALSE}, additional_program |-> {TRUE},
      reporting |-> {FALSE}, dedicated_bin |-> {TRUE, FALSE},
      apple_pay |-> {FALSE}, data_enrichment |-> {TRUE} ]

FeatureToggles == DictsOver(ToggleChoices, DOMAIN ToggleChoices)

\* one 'given' and one 'solve_employee_fee' configuration
BaseB2B ==
    { x \in GivenB2B \cup SolveB2B :
        /\ x.platform_fee_company_month = RInt(5)
        /\ x.employee_fee_month = RInt(3)
        /\ x.mode = "solve_employee_fee" =>
              x.target.type = "breakeven" /\ x.target.months = MaxHorizon }

NormalUsage == Usage(RInt(10), RInt(5))
AdoptionOf(st, na, ch) ==
    [start_active_cards |-> RInt(st), monthly_net_adds |-> RInt(na),
     churn_rate |-> ch]

\* adoption, partner fee and B2B configuration vary
AdoptionScenarios ==
    { Scenario(h, ad, NormalUsage, pf, bb, TogglesOff) :
        h \in Horizons, ad \in Adoptions, pf \in PartnerFees,
        bb \in GivenB2B \cup SolveB2B }

\* the feature toggles vary
ToggleScenarios ==
    { Scenario(h, AdoptionOf(8, 0, RZero), NormalUsage, Rat(1, 4), bb, tg) :
        h \in Horizons, tg \in FeatureToggles,
        bb \in BaseB2B }

\* the usage values the guards of the loop are for
GuardScenarios ==
    { Scenario(h, AdoptionOf(st, 0, RZero), us, Rat(1, 4), bb, TogglesOff) :
        h \in Horizons, st \in {0, 8}, us \in Usages \ {NormalUsage},
        bb \in BaseB2B }

\* the B2B mode is neither of the two the engine knows
OtherModeScenarios ==
    { Scenario(h, ad, NormalUsage, Rat(1, 4), bb, TogglesOff) :
        h \in Horizons, ad \in Adoptions, bb \in OtherB2B }

Scenarios ==
    AdoptionScenarios \cup ToggleScenarios \cup GuardScenarios
        \cup OtherModeScenarios

BaseScenario ==
    Scenario(MaxHorizon,
             [start_active_cards |-> RInt(8), monthly_net_adds |-> RZero,
              churn_rate |-> RZero],
             Usage(RInt(10), RInt(5)), Rat(1, 4),
             CHOOSE bb \in GivenB2B : bb.employee_fee_month = RZero, TogglesOff)

(***************************************************************************)
(* Init: an engine constructed from the plan, and a simulate call about    *)
(* to run.                                                                 *)
(***************************************************************************)
\* a plan that charges nothing: the tier schedules it has to carry, at a
\* price of 0, and none of the optional sections
FreeTiers == << Tier(None, RZero) >>
FreePlan ==
    [ id |-> "free",
      variable_monthly |->
        [ active_cards |-> [tiers |-> FreeTiers],
          authorizations |-> [ eea |-> [tiers |-> FreeTiers],
                               non_eea |-> [tiers |-> FreeTiers] ],
          three_ds |-> [tiers |-> FreeTiers] ] ]

\* the plan with other event fees: a mandatory KYC fee, document and SMS fees
\* enabled by default, and no account closure fee
EventPlan ==
    [ BasePlan EXCEPT
        !.id = "events",
        !.event_fees =
            << EventFee("card_issue", Rat(1, 2), TRUE, TRUE),
               EventFee("plastic_personalization", ROne, FALSE, FALSE),
               EventFee("kyc_attempt", Rat(1, 2), TRUE, FALSE),
               EventFee("account_documents", Rat(1, 4), FALSE, TRUE),
               EventFee("dispute", RInt(2), FALSE, FALSE),
               EventFee("sms", Rat(1, 4), FALSE, TRUE),
               EventFee("pin_change", Rat(1, 2), FALSE, FALSE) >> ]

\* a manufacturing band [lo, hi] at a price per card
Band(lo, hi, p) == [min_batch |-> lo, max_batch |-> RInt(hi), price |-> p]

\* the plan with other physical card prices: manufacturing bands with a gap
\* between them, a band that is free of charge and no band without an upper
\* end; a default delivery method that is not the first one listed
PhysicalPlan ==
    [ BasePlan EXCEPT
        !.id = "physical",
        !.physical_cards =
            [ manufacturing |->
                [tiers |-> << Band(2, 4, RInt(2)), Band(6, 8, RZero),
                              Band(10, 12, ROne) >>],
              delivery |->
                [methods |-> << [key |-> "post", price |-> ROne],
                                [key |-> "dhl_tracked", price |-> RInt(3)] >>,
                 default_method |-> "dhl_tracked"] ] ]

\* the default delivery method is none of the methods listed
LostDefaultPlan ==
    [ PhysicalPlan EXCEPT
        !.id = "lost_default",
        !.physical_cards.delivery.default_method = "courier" ]

\* no default delivery method, no manufacturing bands
NoDefaultPlan ==
    [ PhysicalPlan EXCEPT
        !.id = "no_default",
        !.physical_cards =
            [ manufacturing |-> [tiers |-> << >>],
              delivery |->
                [methods |-> << [key |-> "post", price |-> ROne],
                                [key |-> "dhl_tracked", price |-> RInt(3)] >>] ] ]

\* no delivery methods
NoMethodsPlan ==
    [ PhysicalPlan EXCEPT
        !.id = "no_methods",
        !.physical_cards = [ delivery |-> [default_method |-> "post"] ] ]

PhysicalPlans == {PhysicalPlan, LostDefaultPlan, NoDefaultPlan, NoMethodsPlan}

Plans == {BasePlan, FreePlan, EventPlan} \cup PhysicalPlans

\* whole years and the months next to them, with a growing card base
YearHorizons == {12, 13, 24, 25, 36, 37}
YearScenarios ==
    { Scenario(h, AdoptionOf(8, 6, RZero), NormalUsage, Rat(1, 4), bb, TogglesOff) :
        h \in YearHorizons, bb \in BaseB2B }

\* the scenarios run on the plan that charges nothing
FreeScenarios ==
    { Scenario(h, AdoptionOf(8, 0, RZero), NormalUsage, partner, bb, TogglesOff) :
        h \in Horizons, partner \in {RZero, Rat(1, 4)},
        bb \in GivenB2B \cup BaseB2B }

\* the event types of _compute_event_costs
EventKeys ==
    { "card_issue", "plastic_personalization", "kyc_attempt", "account_documents",
      "dispute", "sms", "pin_change", "account_closure" }

\* toggles.event_fees: every toggle off, every toggle on, some on, none given
EventToggleChoices ==
    { [k \in EventKeys |-> FALSE], [k \in EventKeys |-> TRUE],
      [dispute |-> TRUE, sms |-> FALSE, pin_change |-> TRUE], EmptyDict }

\* the event toggles vary, with and without cards issued and churned
EventScenarios ==
    LET sc(ad, bb, ev) ==
            Scenario(2, ad, NormalUsage, Rat(1, 4), bb,
                     [event_fees |-> ev] @@ TogglesOff)
        given == { sc(ad, bb, ev) :
                     ad \in {AdoptionOf(8, 6, Rat(1, 2)), AdoptionOf(8, 0, RZero)},
                     bb \in BaseB2B, ev \in EventToggleChoices }
        \* a scenario whose toggles have no event_fees entry
        bare == { [x EXCEPT !.toggles =
                      [k \in DOMAIN x.toggles \ {"event_fees"} |-> x.toggles[k]]] :
                    x \in {y \in given : y.toggles.event_fees = EmptyDict} }
    IN  given \cup bare

\* the physical card toggles: manufacturing alone, delivery alone with a
\* method that is listed, one that is not, or none named, both, neither
PhysicalToggles ==
    LET tg(mfg, del) == [physical_manufacturing |-> mfg, physical_delivery |-> del]
        named(method) == [delivery_method |-> method] @@ tg(FALSE, TRUE)
    IN  { tg(TRUE, FALSE), named("post"), named("dhl_tracked"), named("drone"),
          tg(FALSE, TRUE), tg(FALSE, FALSE),
          [delivery_method |-> "post"] @@ tg(TRUE, TRUE) }

\* the physical cards issued in a month: none, below, in, between and above
\* the manufacturing bands
PhysicalIssued == {0, 1, 3, 5, 7, 11, 13}

\* a one-month scenario that issues the given number of physical cards
PhysicalScenario(cards, tg) ==
    LET base == Scenario(1, AdoptionOf(8, cards, RZero), NormalUsage, Rat(1, 4),
                         CHOOSE bb \in BaseB2B : bb.mode = "given", TogglesOff)
    IN  [ base EXCEPT
            !.issuance.physical_share_issued = ROne,
            !.toggles = tg @@ [k \in DOMAIN base.toggles \
                                      {"physical_manufacturing", "physical_delivery",
                                       "delivery_method"} |-> base.toggles[k]] ]

PhysicalScenarios(plan) ==
    { PhysicalScenario(cards, tg) :
        cards \in IF plan = PhysicalPlan THEN PhysicalIssued ELSE {0, 3},
        tg \in PhysicalToggles }

ScenariosOf(plan) ==
    IF plan = BasePlan THEN Scenarios \cup YearScenarios
    ELSE IF plan = EventPlan THEN EventScenarios
    ELSE IF plan \in PhysicalPlans THEN PhysicalScenarios(plan)
    ELSE FreeScenarios

EngineInit ==
    /\ pricing_plan \in Plans
    /\ event_fees_map = EventFeesMap(pricing_plan)
    /\ optional_features = DictGet(pricing_plan, "optional_features", EmptyDict)

CallInit ==
    /\ pc = "idle"
    /\ rows = << >>
    /\ active = RZero
    /\ cumulative_profit = RZero
    /\ m = 0
    /\ one_offs_by_month = EmptyDict
    /\ fixed_monthly_total = RZero
    /\ required_employee_fee = None
    /\ row_index = 0
    /\ result = None
    /\ error = ""

\* simulate called outside a request handler
NoRequest ==
    /\ endpoint = ""
    /\ pending = << >>
    /\ status = 0

\* simulate called once, by one caller
OneCaller ==
    /\ other = None
    /\ calls = 1
    /\ alone = EmptyDict
    /\ interleaved = FALSE
    /\ NoRequest

NoTierCall ==
    /\ t_volume = RZero
    /\ t_tiers = << >>
    /\ t_out = EmptyDict

Init ==
    /\ EngineInit
    /\ scenario \in ScenariosOf(pricing_plan)
    /\ CallInit
    /\ NoTierCall
    /\ OneCaller

(***************************************************************************)
(* simulate, step by step.                                                 *)
(***************************************************************************)
\* mutant: the calls append to one list of rows
kept_rows(previous) == previous

\* rows: list[MonthlyResult] = [], a new list in every call
new_rows(previous) == << >>

\* lines 50-103: the parameters are read (a missing required field raises
\* KeyError), the one-offs and the fixed total are computed, the loop is set
\* up; required_employee_fee = None of line 213 is taken here as well
Start ==
    /\ pc = "idle"
    /\ IF ~RequiredPresent(scenario)
       THEN /\ pc' = "failed"
            /\ error' = "KeyError"
            /\ UNCHANGED << one_offs_by_month, fixed_monthly_total, rows, active,
                            cumulative_profit, m, required_employee_fee >>
       ELSE /\ one_offs_by_month' = _compute_one_offs(months, toggles)
            /\ fixed_monthly_total' = _compute_fixed_monthly(toggles)
            /\ rows' = new_rows(rows)
            /\ required_employee_fee' = None
            /\ active' = start_active
            /\ cumulative_profit' = RZero
            /\ m' = 1
            /\ pc' = "loop"
            /\ error' = ""
    /\ UNCHANGED << engine_vars, scenario, row_index, result, tier_vars,
                    caller_vars >>

\* mutant: range(1, months)
in_range_exclusive(mm, mths) == mm < mths

\* whether mm is in range(1, months + 1), for mm >= 1
in_range(mm, mths) == mm <= mths

\* lines 105-210: one iteration of "for m in range(1, months + 1)"
MonthStep ==
    /\ pc = "loop"
    /\ in_range(m, months)
    /\ LET out == MonthBody(active, cumulative_profit, m)
       IN  IF out.raised # ""
           THEN /\ pc' = "failed"
                /\ error' = out.raised
                /\ active' = out.active
                /\ UNCHANGED << rows, cumulative_profit, m >>
           ELSE /\ rows' = Append(rows, out.row)
                /\ active' = out.active
                /\ cumulative_profit' = out.row.cumulative_profit
                /\ m' = m + 1
                /\ UNCHANGED << pc, error >>
    /\ UNCHANGED << engine_vars, scenario, one_offs_by_month, fixed_monthly_total,
                    required_employee_fee, row_index, result, tier_vars,
                    caller_vars >>

LoopDone == pc = "loop" /\ ~in_range(m, months)

\* lines 213-221: the fee is solved and the second pass is set up
SolveFee ==
    /\ LoopDone
    /\ b2b_mode = "solve_employee_fee"
    /\ LET out == _solve_employee_fee(rows, companies, platform_fee_company_month,
                                      target_months, target_type, target)
       IN  IF out.raised # ""
           THEN /\ pc' = "failed"
                /\ error' = out.raised
                /\ UNCHANGED << required_employee_fee, cumulative_profit,
                                row_index >>
           ELSE /\ required_employee_fee' = out.val
                /\ cumulative_profit' = RZero
                /\ row_index' = 1
                /\ pc' = "repass"
                /\ UNCHANGED error
    /\ UNCHANGED << engine_vars, scenario, rows, active, m, one_offs_by_month,
                    fixed_monthly_total, result, tier_vars, caller_vars >>

\* mutant: the second pass carries on from the first pass's cumulative profit
repass_cumulative_carried(row, cum) ==
    RAdd(RAdd(row.cumulative_profit, cum), row.profit)

\* cumulative_profit += row.profit (row.profit already recomputed)
repass_cumulative(row, cum) == RAdd(cum, row.profit)

\* mutant: the second pass takes the B2B revenue off the row's total costs
repassed_row_with_costs(row, rev_b2b, total_revenue, profit) ==
    [row EXCEPT !.rev_b2b = rev_b2b,
                !.total_revenue = total_revenue,
                !.profit = profit,
                !.total_costs = RSub(row.costs_excl_b2b, rev_b2b)]

\* mutant: the second pass leaves the row's profit as the first pass set it
repassed_row_old_profit(row, rev_b2b, total_revenue, profit) ==
    [row EXCEPT !.rev_b2b = rev_b2b,
                !.total_revenue = total_revenue]

\* lines 223-228: the fields of the row the second pass assigns (the
\* cumulative profit follows)
repassed_row(row, rev_b2b, total_revenue, profit) ==
    [row EXCEPT !.rev_b2b = rev_b2b,
                !.total_revenue = total_revenue,
                !.profit = profit]

\* lines 222-230: the second pass over one row
RepassRow ==
    /\ pc = "repass"
    /\ row_index <= Len(rows)
    /\ LET row == rows[row_index]
           rev_b2b == b2b_rev_of(row.active_cards, required_employee_fee)
           total_revenue == RAdd(row.rev_excl_b2b, rev_b2b)
           profit == RSub(total_revenue, row.costs_excl_b2b)
           row2 == repassed_row(row, rev_b2b, total_revenue, profit)
           cum == repass_cumulative(row2, cumulative_profit)
       IN  /\ cumulative_profit' = cum
           /\ rows' = [rows EXCEPT ![row_index] =
                          [row2 EXCEPT !.cumulative_profit = cum]]
    /\ row_index' = row_index + 1
    /\ UNCHANGED << engine_vars, scenario, pc, active, m, one_offs_by_month,
                    fixed_monthly_total, required_employee_fee, result, error,
                    tier_vars, caller_vars >>

\* lines 232-240: the KPIs are calculated and the result is returned
Finish ==
    /\ \/ LoopDone /\ b2b_mode # "solve_employee_fee"
       \/ pc = "repass" /\ row_index > Len(rows)
    /\ result' = [ rows |-> rows,
                   kpis |-> _calculate_kpis(rows, months, required_employee_fee),
                   scenario_name |-> DictGet(scenario, "name", "Unnamed Scenario"),
                   pricing_plan_id |-> DictGet(pricing_plan, "id", "unknown") ]
    /\ pc' = "done"
    /\ UNCHANGED << engine_vars, scenario, rows, active, cumulative_profit, m,
                    one_offs_by_month, fixed_monthly_total, required_employee_fee,
                    row_index, error, tier_vars, caller_vars >>

Next == Start \/ MonthStep \/ SolveFee \/ RepassRow \/ Finish

Spec == Init /\ [][Next]_vars

(***************************************************************************)
(* The TierCalculator functions called on their own.                       *)
(***************************************************************************)
\* volumes in steps of one half, from below zero to beyond the last bound
Volumes == { Rat(k, 2) : k \in -2..(2 * MaxVolume) }

TierSchedules ==
    { \* well formed: ascending bounds, the unbounded tier last
      << Tier(RInt(2), ROne), Tier(RInt(5), Rat(3, 4)), Tier(None, Rat(1, 2)) >>,
      << Tier(RInt(3), RInt(2)), Tier(None, ROne) >>,
      << Tier(None, ROne) >>,
      \* well formed, the same price in both tiers
      << Tier(RInt(3), ROne), Tier(None, ROne) >>,
      \* no unbounded tier
      << Tier(RInt(2), ROne), Tier(RInt(5), Rat(3, 4)) >>,
      \* bounds out of order
      << Tier(RInt(5), ROne), Tier(RInt(2), RInt(2)), Tier(None, Rat(1, 2)) >>,
      \* empty
      << >> }

InitTiers ==
    /\ EngineInit
    /\ pricing_plan = BasePlan
    /\ scenario = BaseScenario
    /\ CallInit
    /\ t_volume \in Volumes
    /\ t_tiers \in TierSchedules
    /\ t_out = EmptyDict
    /\ OneCaller

Called(fn) == fn \in DOMAIN t_out

CallApplyTiers ==
    /\ ~Called("apply_tiers")
    /\ t_out' = [x \in {"apply_tiers"} |-> apply_tiers(t_volume, t_tiers)] @@ t_out
    /\ UNCHANGED << engine_vars, call_vars, t_volume, t_tiers, caller_vars >>

CallApplyGraduatedTiers ==
    /\ ~Called("apply_graduated_tiers")
    /\ t_out' = [x \in {"apply_graduated_tiers"} |->
                    apply_graduated_tiers(t_volume, t_tiers)] @@ t_out
    /\ UNCHANGED << engine_vars, call_vars, t_volume, t_tiers, caller_vars >>

CallGetEffectiveRate ==
    /\ ~Called("get_effective_rate")
    /\ t_out' = [x \in {"get_effective_rate"} |->
                    get_effective_rate(t_volume, t_tiers)] @@ t_out
    /\ UNCHANGED << engine_vars, call_vars, t_volume, t_tiers, caller_vars >>

CallFindTierIndex ==
    /\ ~Called("find_tier_index")
    /\ t_out' = [x \in {"find_tier_index"} |->
                    find_tier_index(t_volume, t_tiers)] @@ t_out
    /\ UNCHANGED << engine_vars, call_vars, t_volume, t_tiers, caller_vars >>

NextTiers ==
    \/ CallApplyTiers
    \/ CallApplyGraduatedTiers
    \/ CallGetEffectiveRate
    \/ CallFindTierIndex

SpecTiers == InitTiers /\ [][NextTiers]_vars

(***************************************************************************)
(* Several simulate calls on one engine: a caller that calls again after a *)
(* call has ended (api/routes/simulation.py, compare_scenarios) and a      *)
(* second caller whose call runs interleaved with the first one's.         *)
(***************************************************************************)
MaxCalls == 3

\* one call in 'given' mode, one in 'solve_employee_fee' mode, one that fails
CallScenarios ==
    { Scenario(2, AdoptionOf(8, 6, Rat(1, 2)), NormalUsage, Rat(1, 4), bb, TogglesOff) :
        bb \in BaseB2B }
    \cup { Scenario(2, AdoptionOf(8, 0, RZero), Usage(RInt(-10), RInt(5)),
                    Rat(1, 4), bb, TogglesOff) :
             bb \in {x \in BaseB2B : x.mode = "given"} }

\* the fields simulate reads with scenario[...]: a section, or a field of one
RequiredFields ==
    { << "horizon_months" >>, << "adoption" >>, << "usage" >>, << "commercial" >>,
      << "toggles" >>, << "adoption", "start_active_cards" >>,
      << "usage", "spend_per_active_card_month" >>, << "usage", "in_app_share" >>,
      << "usage", "avg_ticket" >>, << "usage", "ecom_share" >>,
      << "commercial", "partner_fee_pct" >>, << "commercial", "interchange_pct" >>,
      << "commercial", "b2b" >> }

\* the dict d without the key k
Without(d, k) == [x \in DOMAIN d \ {k} |-> d[x]]

\* the scenario sc without the field at path
WithoutField(sc, path) ==
    IF Len(path) = 1 THEN Without(sc, path[1])
    ELSE [x \in DOMAIN sc |->
            IF x = path[1] THEN Without(sc[x], path[2]) ELSE sc[x]]

\* a complete scenario with one required field left out
MissingScenarios ==
    { WithoutField(Scenario(2, AdoptionOf(8, 6, Rat(1, 2)), NormalUsage, Rat(1, 4),
                            bb, TogglesOff), path) :
        bb \in {x \in BaseB2B : x.mode = "given"}, path \in RequiredFields }

\* the locals of the simulate call that is running
CurrentFrame ==
    [ scenario |-> scenario, pc |-> pc, rows |-> rows, active |-> active,
      cumulative_profit |-> cumulative_profit, m |-> m,
      one_offs_by_month |-> one_offs_by_month,
      fixed_monthly_total |-> fixed_monthly_total,
      required_employee_fee |-> required_employee_fee, row_index |-> row_index,
      result |-> result, error |-> error, interleaved |-> interleaved ]

\* the locals of a call that has not started
IdleFrame(sc) ==
    [ scenario |-> sc, pc |-> "idle", rows |-> << >>, active |-> RZero,
      cumulative_profit |-> RZero, m |-> 0, one_offs_by_month |-> EmptyDict,
      fixed_monthly_total |-> RZero, required_employee_fee |-> None,
      row_index |-> 0, result |-> None, error |-> "", interleaved |-> FALSE ]

Completed(f) == f.pc \in {"done", "failed"}
Running(f) == f.pc \in {"loop", "repass"}

\* what the caller gets from a call: the result, or the exception raised
Outcome(f) == [raised |-> f.error, result |-> f.result]

InitCalls ==
    /\ EngineInit
    /\ pricing_plan = BasePlan
    /\ scenario \in CallScenarios \cup MissingScenarios
    /\ CallInit
    /\ NoTierCall
    /\ other \in {IdleFrame(sc) : sc \in CallScenarios}
    /\ calls = 2
    /\ alone = EmptyDict
    /\ interleaved = FALSE
    /\ NoRequest

\* the caller calls simulate again, on the same engine or on one newly
\* built from the same plan; the outcome of a call that ran on its own is
\* kept for comparison
NewCall ==
    /\ Completed(CurrentFrame)
    /\ calls < MaxCalls
    /\ \E sc \in CallScenarios, rebuilt \in BOOLEAN :
          /\ scenario' = sc
          /\ pricing_plan' = pricing_plan
          /\ event_fees_map' = IF rebuilt THEN EventFeesMap(pricing_plan)
                               ELSE event_fees_map
          /\ optional_features' =
                 IF rebuilt THEN DictGet(pricing_plan, "optional_features", EmptyDict)
                 ELSE optional_features
    /\ pc' = "idle"
    /\ result' = None
    /\ error' = ""
    /\ interleaved' = FALSE
    /\ calls' = calls + 1
    /\ alone' = IF ~interleaved /\ scenario \notin DOMAIN alone
                THEN [x \in {scenario} |-> Outcome(CurrentFrame)] @@ alone
                ELSE alone
    /\ UNCHANGED << rows, active, cumulative_profit, m, one_offs_by_month,
                    fixed_monthly_total, required_employee_fee, row_index,
                    tier_vars, other, endpoint, pending, status >>

\* mutant: one accumulator for all the calls on the engine
resumed_cumulative_shared(own, running) == running

\* cumulative_profit is a local of the call: the call that is resumed finds
\* its own value
resumed_cumulative(own, running) == own

\* the running call is suspended and the other call goes on
Switch ==
    /\ other # None
    /\ other' = [CurrentFrame EXCEPT
                    !.interleaved = interleaved \/ Running(CurrentFrame)]
    /\ interleaved' = (other.interleaved
                          \/ (Running(CurrentFrame) /\ ~Completed(other)))
    /\ scenario' = other.scenario
    /\ pc' = other.pc
    /\ rows' = other.rows
    /\ active' = other.active
    /\ cumulative_profit' =
           resumed_cumulative(other.cumulative_profit, cumulative_profit)
    /\ m' = other.m
    /\ one_offs_by_month' = other.one_offs_by_month
    /\ fixed_monthly_total' = other.fixed_monthly_total
    /\ required_employee_fee' = other.required_employee_fee
    /\ row_index' = other.row_index
    /\ result' = other.result
    /\ error' = other.error
    /\ UNCHANGED << engine_vars, tier_vars, calls, alone, endpoint, pending,
                    status >>

NextCalls ==
    \/ Start
    \/ MonthStep
    \/ SolveFee
    \/ RepassRow
    \/ Finish
    \/ NewCall
    \/ Switch

SpecCalls == InitCalls /\ [][NextCalls]_vars

(***************************************************************************)
(* The request layer (api/routes/simulation.py): a handler builds an       *)
(* engine from the plan, calls simulate once for every scenario of the     *)
(* request and answers with an HTTP status.                                *)
(***************************************************************************)
MaxSteps == 2

Endpoints == {"run", "compare", "sensitivity"}

\* the scenarios of the requests: two that simulate returns for, one without
\* a required field, one with a negative spend
ApiScenarios ==
    LET sc(us, bb) == Scenario(1, AdoptionOf(8, 6, Rat(1, 2)), us, Rat(1, 4), bb,
                               TogglesOff)
        given == CHOOSE bb \in BaseB2B : bb.mode = "given"
    IN  { sc(NormalUsage, bb) : bb \in BaseB2B }
        \cup { WithoutField(sc(NormalUsage, given), << "usage", "avg_ticket" >>),
               sc(Usage(RInt(-10), RInt(5)), given) }

\* supported_params of sensitivity_analysis (some of them), and a parameter
\* that is not supported
SupportedParams ==
    [ avg_ticket |-> << "usage", "avg_ticket" >>,
      churn_rate |-> << "adoption", "churn_rate" >>,
      spend_per_active_card_month |-> << "usage", "spend_per_active_card_month" >> ]

Parameters == DOMAIN SupportedParams \cup {"horizon_months"}

\* min_value, max_value of a sensitivity request
Ranges == { << RZero, Rat(1, 2) >>, << RInt(-8), RInt(8) >> }

\* scenario[section][field] = value, if the scenario has the section
SetParameter(sc, section, field, value) ==
    IF section \in DOMAIN sc
    THEN [x \in DOMAIN sc |->
            IF x = section
            THEN [y \in DOMAIN sc[x] \cup {field} |->
                    IF y = field THEN value ELSE sc[x][y]]
            ELSE sc[x]]
    ELSE sc

\* the scenarios sensitivity_analysis simulates: the parameter set to
\* min_value + i * step_size for i in range(steps)
SensitivityScenarios(sc, parameter, min_value, max_value, steps) ==
    LET section == SupportedParams[parameter][1]
        field == SupportedParams[parameter][2]
        step_size == IF steps > 1
                     THEN RDiv(RSub(max_value, min_value), RInt(steps - 1))
                     ELSE RZero
    IN  [i \in 1..steps |->
            SetParameter(sc, section, field,
                         RAdd(min_value, RMul(RInt(i - 1), step_size)))]

\* a request: the route and, in order, the scenarios its handler simulates;
\* a sensitivity request for an unsupported parameter has a parameter only
Requests ==
    { [endpoint |-> "run", scenarios |-> << sc >>] : sc \in ApiScenarios }
    \* CompareRequest.scenarios has min_length = 2
    \cup { [endpoint |-> "compare", scenarios |-> << a, b >>] :
             a, b \in ApiScenarios }
    \cup { [endpoint |-> "sensitivity", parameter |-> p,
            scenarios |-> IF p \in DOMAIN SupportedParams
                          THEN SensitivityScenarios(sc, p, r[1], r[2], steps)
                          ELSE << >>] :
             sc \in ApiScenarios, p \in Parameters, r \in Ranges,
             steps \in 1..MaxSteps }

\* the status each handler answers an exception of simulate with
run_simulation_status(exception) ==
    IF exception \in {"KeyError", "ValueError"} THEN 400 ELSE 500

compare_scenarios_status(exception) == 500

sensitivity_analysis_status(exception) == 500

InitApi ==
    /\ EngineInit
    /\ pricing_plan = BasePlan
    /\ \E request \in Requests :
          /\ endpoint = request.endpoint
          /\ pending = request.scenarios
          /\ scenario = IF request.scenarios = << >> THEN EmptyDict
                        ELSE request.scenarios[1]
          \* "if parameter not in supported_params": answered before the try
          /\ status = IF /\ request.endpoint = "sensitivity"
                         /\ request.parameter \notin DOMAIN SupportedParams
                      THEN 400 ELSE 0
    /\ pc = "received"
    /\ rows = << >>
    /\ active = RZero
    /\ cumulative_profit = RZero
    /\ m = 0
    /\ one_offs_by_month = EmptyDict
    /\ fixed_monthly_total = RZero
    /\ required_employee_fee = None
    /\ row_index = 0
    /\ result = None
    /\ error = ""
    /\ NoTierCall
    /\ other = None
    /\ calls = 0
    /\ alone = EmptyDict
    /\ interleaved = FALSE

\* the handler calls simulate on the next scenario of the request; with
\* none left it returns its response
CallSimulate ==
    /\ status = 0
    /\ pc \in {"received", "done"}
    /\ IF pending # << >>
       THEN /\ scenario' = Head(pending)
            /\ pending' = Tail(pending)
            /\ pc' = "idle"
            /\ calls' = calls + 1
            /\ result' = None
            /\ UNCHANGED status
       ELSE /\ status' = 200
            /\ UNCHANGED << scenario, pending, pc, calls, result >>
    /\ UNCHANGED << engine_vars, rows, active, cumulative_profit, m,
                    one_offs_by_month, fixed_monthly_total, required_employee_fee,
                    row_index, error, tier_vars, other, alone, interleaved,
                    endpoint >>

\* simulate raised: the except clauses of the handler
AnswerException ==
    /\ status = 0
    /\ pc = "failed"
    /\ status' = CASE endpoint = "run" -> run_simulation_status(error)
                   [] endpoint = "compare" -> compare_scenarios_status(error)
                   [] endpoint = "sensitivity" -> sensitivity_analysis_status(error)
    /\ UNCHANGED << engine_vars, call_vars, tier_vars, other, calls, alone,
                    interleaved, endpoint, pending >>

NextApi ==
    \/ CallSimulate
    \/ Start
    \/ MonthStep
    \/ SolveFee
    \/ RepassRow
    \/ Finish
    \/ AnswerException

SpecApi == InitApi /\ [][NextApi]_vars

(***************************************************************************)
(* Properties.                                                             *)
(***************************************************************************)
Returned == pc = "done"
SolveMode == b2b_mode = "solve_employee_fee"
Within(a, b, tol) == RLt(RAbs(RSub(a, b)), tol)
Cent == Rat(1, 100)

\* the sum of profit over rows 1..k
RunningProfit(rs, k) == Sum(Column(SubSeq(rs, 1, k), "profit"))

\* C1: in the result of simulate, cumulative_profit of every row k is the sum
\* of profit over rows 1..k (within 0.01), in 'given' mode and after the
\* second pass of 'solve_employee_fee' mode.
C1_CumulativeIsRunningSum ==
    Returned =>
        \A k \in 1..Len(result.rows) :
            Within(result.rows[k].cumulative_profit,
                   RunningProfit(result.rows, k), Cent)

\* a solved run of several months whose fee is positive: the second pass
\* changed the profit of every row
C1_Witness ==
    /\ Returned
    /\ SolveMode
    /\ Len(result.rows) >= 2
    /\ RLt(RZero, result.kpis.required_employee_fee_month)
    /\ result.rows[1].cumulative_profit # RZero

\* the recurrence of the claim, from active[0] = start_active_cards
RECURSIVE ActiveAt(_)
ActiveAt(i) ==
    IF i = 0 THEN start_active
    ELSE LET prev == ActiveAt(i - 1)
         IN  RMax(RZero, RAdd(RSub(prev, RMul(prev, churn_rate)), net_adds))

\* C2: row i reports active[i] of the recurrence active[i] = max(0,
\* active[i-1] - active[i-1]*churn_rate + net_adds), active[0] =
\* start_active_cards; with churn_rate = 0 and net_adds = n >= 0 row i has
\* start + i*n; and active_cards is never negative.
C2_ActiveRecurrence ==
    \A i \in 1..Len(rows) :
        /\ rows[i].active_cards = ActiveAt(i)
        /\ RLe(RZero, rows[i].active_cards)
        /\ (churn_rate = RZero /\ RLe(RZero, net_adds)) =>
              rows[i].active_cards = RAdd(start_active, RMul(RInt(i), net_adds))

\* churn and net adds both at work over the whole horizon
C2_Witness ==
    /\ Returned
    /\ Len(rows) = MaxHorizon
    /\ churn_rate = Rat(1, 2)
    /\ net_adds = RInt(6)
    /\ start_active = RInt(8)
    /\ rows[1].active_cards = RInt(10)
    /\ rows[2].active_cards = RInt(11)

\* C3: simulate returns exactly horizon_months rows and the i-th row has
\* month = i, in both B2B modes.
C3_RowsInMonthOrder ==
    Returned =>
        /\ Len(result.rows) = months
        /\ \A i \in 1..Len(result.rows) : result.rows[i].month = i

C3_Witness ==
    /\ Returned
    /\ SolveMode
    /\ months = MaxHorizon
    /\ Len(result.rows) = MaxHorizon
    /\ result.rows[MaxHorizon].month = MaxHorizon

\* the fee the run reports, and the target window of the returned rows
ReportedFee == result.kpis.required_employee_fee_month
WindowLen ==
    IF target_months < Len(result.rows) THEN target_months ELSE Len(result.rows)
Window == SubSeq(result.rows, 1, WindowLen)
WindowProfit == Sum(Column(Window, "profit"))
CardMonths == Sum(Column(Window, "active_cards"))
PlatformRevenue ==
    RMul(RMul(companies, platform_fee_company_month), RInt(WindowLen))

\* what the employee fee has to bring in over the window for a profit of zero
Shortfall ==
    RSub(RSub(Sum(Column(Window, "costs_excl_b2b")),
              Sum(Column(Window, "rev_excl_b2b"))),
         PlatformRevenue)

BreakevenOverHorizon ==
    /\ Returned
    /\ SolveMode
    /\ target_type = "breakeven"
    /\ target_months = months

\* C4 as stated: in 'solve_employee_fee' mode with a 'breakeven' target over
\* the whole horizon the fee is present and >= 0 and the profit summed over
\* the target window is within 1.0 of zero.
C4_Original ==
    BreakevenOverHorizon =>
        /\ ReportedFee # None
        /\ RLe(RZero, ReportedFee)
        /\ Within(WindowProfit, RZero, BalancedTolerance)

\* C4 amended: the fee is present and >= 0; the window profit is within 1.0
\* of zero when the window has card-months and a shortfall to cover; with
\* card-months and no shortfall the fee is 0 and the window profit stays at
\* its surplus (>= 0); without card-months the fee is 0.
C4_BreakevenWhenShortfall ==
    BreakevenOverHorizon =>
        /\ ReportedFee # None
        /\ RLe(RZero, ReportedFee)
        /\ (RLt(RZero, CardMonths) /\ RLe(RZero, Shortfall)) =>
               Within(WindowProfit, RZero, BalancedTolerance)
        /\ (RLt(RZero, CardMonths) /\ RLt(Shortfall, RZero)) =>
               /\ ReportedFee = RZero
               /\ WindowProfit = RNeg(Shortfall)
        /\ RLe(CardMonths, RZero) => ReportedFee = RZero

\* a positive fee solved over the longest horizon brings the window to zero
C4_Witness ==
    /\ BreakevenOverHorizon
    /\ months = MaxHorizon
    /\ RLt(RZero, ReportedFee)
    /\ RLt(RZero, Shortfall)
    /\ WindowProfit = RZero

\* the target profit of the claim, by target type
TargetProfit ==
    IF target_type = "profit" THEN target.amount
    ELSE IF target_type = "margin"
         THEN RMul(target.amount, Sum(Column(Window, "rev_excl_b2b")))
    ELSE RZero

\* the fee of the claim's formula
ExpectedFee ==
    IF RLe(CardMonths, RZero) THEN RZero
    ELSE RMax(RZero, RDiv(RAdd(Shortfall, TargetProfit), CardMonths))

\* C5: the solved fee is max(0, ((sum of costs_excl_b2b - sum of
\* rev_excl_b2b) + target_profit - companies*platform_fee*h) / sum of
\* active_cards) over the first h = min(target months, horizon) rows, with
\* target_profit by target type; with no card-months in the window the fee
\* is 0 and the run still returns: solving never fails a run.
C5_SolvedFeeFormula ==
    /\ (Returned /\ SolveMode) => ReportedFee = ExpectedFee
    /\ (SolveMode /\ Len(rows) = months /\ pc # "loop") => pc # "failed"

\* a margin target over a window shorter than the horizon, with a fee to pay
C5_Witness ==
    /\ Returned
    /\ SolveMode
    /\ target_type = "margin"
    /\ WindowLen = 1
    /\ Len(result.rows) = MaxHorizon
    /\ RLt(RZero, TargetProfit)
    /\ RLt(RZero, ReportedFee)

\* C6: in 'solve_employee_fee' mode every returned row, those beyond the
\* target window included, has rev_b2b = companies*platform_fee_company_month
\* + active_cards*required_employee_fee_month for the one reported fee, and
\* total_revenue, profit and cumulative_profit follow from that rev_b2b.
C6_FeeAppliedToEveryRow ==
    (Returned /\ SolveMode) =>
        \A i \in 1..Len(result.rows) :
            LET r == result.rows[i]
                prev == IF i = 1 THEN RZero
                        ELSE result.rows[i - 1].cumulative_profit
            IN  /\ r.rev_b2b = RAdd(RMul(companies, platform_fee_company_month),
                                    RMul(r.active_cards, ReportedFee))
                /\ r.total_revenue = RAdd(r.rev_excl_b2b, r.rev_b2b)
                /\ r.profit = RSub(r.total_revenue, r.costs_excl_b2b)
                /\ r.cumulative_profit = RAdd(prev, r.profit)

\* rows beyond a one-month window carry the platform fee and the solved fee
C6_Witness ==
    /\ Returned
    /\ SolveMode
    /\ WindowLen = 1
    /\ Len(result.rows) = MaxHorizon
    /\ RLt(RZero, ReportedFee)
    /\ RLt(RZero, platform_fee_company_month)
    /\ RLt(RZero, result.rows[MaxHorizon].active_cards)
    /\ result.rows[MaxHorizon].rev_b2b =
           RAdd(RInt(10), RMul(result.rows[MaxHorizon].active_cards, ReportedFee))

\* a toggle of the scenario: its value when the scenario sets it, the plan's
\* default for it otherwise
ToggleOn(key, default) ==
    IF key \in DOMAIN toggles THEN toggles[key] ELSE default

FieldOr(rec, field, default) ==
    IF field \in DOMAIN rec THEN rec[field] ELSE default

\* the optional features and the fixed monthly fees of the plan in force
PlanFeatures == FieldOr(pricing_plan, "optional_features", EmptyDict)
PlanFixedFees == FieldOr(pricing_plan, "fixed_monthly", << >>)

\* an optional feature of the plan is enabled by its toggle
Enabled(k) ==
    ToggleOn(FieldOr(PlanFeatures[k], "key", k),
             FieldOr(PlanFeatures[k], "enabled_by_default", FALSE))

\* the setup costs (> 0) of the enabled optional features
ExpectedSetup ==
    SumValues([k \in {x \in DOMAIN PlanFeatures :
                         /\ Enabled(x)
                         /\ RLt(RZero, FieldOr(PlanFeatures[x], "setup", RZero))}
                 |-> PlanFeatures[k].setup])

\* C7: the setup cost of an optional feature that is toggled on is charged
\* in cost_oneoff of month 1, where cost_oneoff is the sum of the setup costs
\* of all enabled optional features, and cost_oneoff is 0 in every month
\* m >= 2, for any horizon.
C7_SetupCostInMonthOne ==
    \A i \in 1..Len(rows) :
        rows[i].cost_oneoff = IF rows[i].month = 1 THEN ExpectedSetup ELSE RZero

\* dedicated_bin toggled on: its 40 in month 1 and nothing afterwards
C7_Witness ==
    /\ Returned
    /\ pricing_plan = BasePlan
    /\ Len(result.rows) = MaxHorizon
    /\ MaxHorizon >= 2
    /\ ToggleOn("dedicated_bin", FALSE)
    /\ ~ToggleOn("apple_pay", TRUE)
    /\ result.rows[1].cost_oneoff = OptionalFeatures.dedicated_bin.setup
    /\ result.rows[2].cost_oneoff = RZero
    /\ result.rows[MaxHorizon].cost_oneoff = RZero

\* the plan's fixed monthly fees that are mandatory or toggled on, and the
\* monthly costs of the enabled optional features
ExpectedFixed ==
    LET fees == PlanFixedFees
        due == [i \in 1..Len(fees) |->
                  IF fees[i].mandatory \/ ToggleOn(fees[i].key,
                                                   fees[i].enabled_by_default)
                  THEN fees[i].amount ELSE RZero]
        monthly == [k \in {x \in DOMAIN PlanFeatures : Enabled(x)} |->
                      FieldOr(PlanFeatures[k], "monthly", RZero)]
    IN  RAdd(Sum(due), SumValues(monthly))

TiersCovering(v, ts) ==
    {i \in 1..Len(ts) : ts[i].up_to = None \/ RLe(v, ts[i].up_to)}
SelectedTier(v, ts) ==
    IF TiersCovering(v, ts) = {} THEN Len(ts)
    ELSE CHOOSE i \in TiersCovering(v, ts) : \A j \in TiersCovering(v, ts) : i <= j

\* C9: for volume > 0 and a non-empty schedule apply_tiers returns volume
\* times the price of the first tier whose up_to is null or >= volume (a
\* volume equal to a bound belongs to that tier), find_tier_index returns the
\* index of that tier and get_effective_rate its price, so that
\* apply_tiers(v) = v * get_effective_rate(v) = v * tiers[find_tier_index(v)].price;
\* when no tier matches all three fall back to the last tier.
C9_FirstCoveringTier ==
    (RLt(RZero, t_volume) /\ Len(t_tiers) > 0) =>
        LET sel == SelectedTier(t_volume, t_tiers)
        IN  /\ Called("apply_tiers") =>
                  t_out.apply_tiers = Ok(RMul(t_volume, t_tiers[sel].price))
            /\ Called("find_tier_index") =>
                  t_out.find_tier_index = Ok(sel - 1)
            /\ Called("get_effective_rate") =>
                  t_out.get_effective_rate = Ok(t_tiers[sel].price)
            /\ (Called("apply_tiers") /\ Called("get_effective_rate")
                  /\ Called("find_tier_index")) =>
                  /\ t_out.apply_tiers.val =
                         RMul(t_volume, t_out.get_effective_rate.val)
                  /\ t_out.apply_tiers.val =
                         RMul(t_volume,
                              t_tiers[t_out.find_tier_index.val + 1].price)

\* a volume equal to the bound of the second tier is charged at that tier
C9_Witness ==
    /\ Called("apply_tiers")
    /\ Called("get_effective_rate")
    /\ Called("find_tier_index")
    /\ Len(t_tiers) = 3
    /\ t_tiers[2].up_to = RInt(5)
    /\ t_volume = RInt(5)
    /\ t_out.find_tier_index = Ok(1)
    /\ t_out.get_effective_rate = Ok(Rat(3, 4))
    /\ t_out.apply_tiers = Ok(Rat(15, 4))

\* C10: apply_tiers and apply_graduated_tiers both fail with ValueError for
\* every negative volume and for every empty tier schedule, and return no
\* cost then.
C10_InvalidInputRaises ==
    (RLt(t_volume, RZero) \/ Len(t_tiers) = 0) =>
        /\ Called("apply_tiers") =>
              /\ t_out.apply_tiers.raised = "ValueError"
              /\ t_out.apply_tiers.val = None
        /\ Called("apply_graduated_tiers") =>
              /\ t_out.apply_graduated_tiers.raised = "ValueError"
              /\ t_out.apply_graduated_tiers.val = None

\* the empty schedule called with volume 0, where the order of the checks shows
C10_Witness ==
    /\ Called("apply_tiers")
    /\ Called("apply_graduated_tiers")
    /\ Len(t_tiers) = 0
    /\ t_volume = RZero
    /\ t_out.apply_tiers = Raise("ValueError")
    /\ t_out.apply_graduated_tiers = Raise("ValueError")

\* C11 as stated: apply_tiers with volume 0 returns 0 for every tier list
\* passed, whatever its content.
C11_Original ==
    (t_volume = RZero /\ Called("apply_tiers")) => t_out.apply_tiers = Ok(RZero)

\* C11 amended: apply_tiers with volume 0 returns 0 for every non-empty tier
\* list, whatever its bounds and prices; for the empty list it raises
\* ValueError, the emptiness of the schedule being tested before the volume.
C11_ZeroVolumeCostsNothing ==
    (t_volume = RZero /\ Called("apply_tiers")) =>
        t_out.apply_tiers = IF Len(t_tiers) > 0 THEN Ok(RZero)
                            ELSE Raise("ValueError")

\* volume 0 on a schedule whose bounds are out of order
C11_Witness ==
    /\ Called("apply_tiers")
    /\ t_volume = RZero
    /\ Len(t_tiers) = 3
    /\ t_tiers[1].up_to = RInt(5)
    /\ t_out.apply_tiers = Ok(RZero)

\* a schedule of bands: the bounds ascend from above 0 and only the last
\* tier may be unbounded
Ascending(ts) ==
    \A i \in 1..Len(ts) :
        /\ ts[i].up_to = None => i = Len(ts)
        /\ ts[i].up_to # None =>
              RLt(IF i = 1 THEN RZero ELSE ts[i - 1].up_to, ts[i].up_to)

\* the units of a volume that fall in band i: those between the previous
\* bound and the band's own, everything above the previous bound in the
\* unbounded band
UnitsInBand(v, ts, i) ==
    LET prev == IF i = 1 THEN RZero ELSE ts[i - 1].up_to
        top == IF ts[i].up_to = None THEN v ELSE RMin(v, ts[i].up_to)
    IN  RMax(RZero, RSub(top, prev))

BandSum(v, ts) ==
    Sum([i \in 1..Len(ts) |-> RMul(UnitsInBand(v, ts, i), ts[i].price)])

\* C12: apply_graduated_tiers partitions the volume across the tier bands in
\* order (band i covers the units between the previous bound and its own
\* up_to, the unbounded last band takes everything left) and returns the sum
\* over the bands of units in the band times the band's price.
C12_GraduatedIsBandSum ==
    (Called("apply_graduated_tiers") /\ RLe(RZero, t_volume)
        /\ Len(t_tiers) > 0 /\ Ascending(t_tiers)) =>
        t_out.apply_graduated_tiers = Ok(BandSum(t_volume, t_tiers))

\* a volume that spans all three bands: 2 units at 1, 3 at 3/4, 2 at 1/2
C12_Witness ==
    /\ Called("apply_graduated_tiers")
    /\ Len(t_tiers) = 3
    /\ t_tiers[1] = Tier(RInt(2), ROne)
    /\ t_tiers[2] = Tier(RInt(5), Rat(3, 4))
    /\ t_tiers[3] = Tier(None, Rat(1, 2))
    /\ t_volume = RInt(7)
    /\ t_out.apply_graduated_tiers = Ok(Rat(21, 4))

\* a schedule of bands that ends with the unbounded tier
WellFormed(ts) == Len(ts) > 0 /\ Ascending(ts) /\ ts[Len(ts)].up_to = None

\* a volume discount: every tier cheaper than the one before
DecreasingPrices(ts) ==
    \A i \in 1..(Len(ts) - 1) : RLt(ts[i + 1].price, ts[i].price)

WithinFirstTier(v, ts) == ts[1].up_to = None \/ RLe(v, ts[1].up_to)

\* no jump at the bound of tier i: one unit above it costs one unit at the
\* next band's price more than the bound itself
NoJumpAfter(i) ==
    (t_volume = RAdd(t_tiers[i].up_to, ROne) /\ Called("apply_graduated_tiers")) =>
        t_out.apply_graduated_tiers.val =
            RAdd(apply_graduated_tiers(t_tiers[i].up_to, t_tiers).val,
                 t_tiers[i + 1].price)

NoJumpAtBounds ==
    WellFormed(t_tiers) =>
        \A i \in 1..(Len(t_tiers) - 1) :
            (t_tiers[i + 1].up_to = None
                \/ RLe(RAdd(t_tiers[i].up_to, ROne), t_tiers[i + 1].up_to)) =>
                NoJumpAfter(i)

BothModelsCalled == Called("apply_graduated_tiers") /\ Called("apply_tiers")

\* C13 as stated: apply_graduated_tiers has no jump at a tier boundary, and
\* it equals apply_tiers only when the volume is at most the first tier's
\* bound.
C13_Original ==
    /\ NoJumpAtBounds
    /\ (WellFormed(t_tiers) /\ RLe(RZero, t_volume) /\ BothModelsCalled
            /\ t_out.apply_graduated_tiers = t_out.apply_tiers) =>
           WithinFirstTier(t_volume, t_tiers)

\* C13 amended: apply_graduated_tiers has no jump at a tier boundary; up to
\* the first tier's bound it equals apply_tiers; beyond it the two differ
\* whenever every tier is cheaper than the one before (the graduated cost is
\* then the higher one), whereas tiers of equal price make them equal there too.
C13_GraduatedAgainstStep ==
    /\ NoJumpAtBounds
    /\ (WellFormed(t_tiers) /\ RLe(RZero, t_volume) /\ BothModelsCalled) =>
           /\ WithinFirstTier(t_volume, t_tiers) =>
                  t_out.apply_graduated_tiers = t_out.apply_tiers
           /\ (DecreasingPrices(t_tiers) /\ ~WithinFirstTier(t_volume, t_tiers)) =>
                  RLt(t_out.apply_tiers.val, t_out.apply_graduated_tiers.val)

\* one unit above the first bound of a discount schedule: 2 + 3/4 graduated
\* against 3 * 3/4 in the step model
C13_Witness ==
    /\ BothModelsCalled
    /\ WellFormed(t_tiers)
    /\ DecreasingPrices(t_tiers)
    /\ Len(t_tiers) = 3
    /\ t_volume = RAdd(t_tiers[1].up_to, ROne)
    /\ t_out.apply_graduated_tiers = Ok(Rat(11, 4))
    /\ t_out.apply_tiers = Ok(Rat(9, 4))

\* the volumes above 0 that fall in the same tier as the volume of the call
SameTierVolumes ==
    {w \in Volumes : /\ RLt(RZero, w)
                     /\ SelectedTier(w, t_tiers) = SelectedTier(t_volume, t_tiers)}

UnitPrice(cost, volume) == RDiv(cost, volume)

\* C14: for a step-tier schedule and non-negative volumes apply_tiers is
\* non-decreasing in the volume over any two volumes of the same tier, and
\* the unit price (cost / volume) is the same for both: it changes only
\* between a tier's bound and the next volume above it.
C14_MonotoneWithinTier ==
    (Called("apply_tiers") /\ RLt(RZero, t_volume) /\ Len(t_tiers) > 0) =>
        /\ RLe(apply_tiers(RZero, t_tiers).val, t_out.apply_tiers.val)
        /\ \A w \in SameTierVolumes :
            /\ RLe(w, t_volume) =>
                  RLe(apply_tiers(w, t_tiers).val, t_out.apply_tiers.val)
            /\ UnitPrice(apply_tiers(w, t_tiers).val, w) =
                   UnitPrice(t_out.apply_tiers.val, t_volume)

\* the bound of the second tier: the volumes down to the first bound are
\* charged the same unit price, the next volume up a lower one
C14_Witness ==
    /\ Called("apply_tiers")
    /\ Len(t_tiers) = 3
    /\ t_tiers[1].up_to = RInt(2)
    /\ t_volume = RInt(5)
    /\ Rat(5, 2) \in SameTierVolumes
    /\ RLt(apply_tiers(Rat(5, 2), t_tiers).val, t_out.apply_tiers.val)
    /\ UnitPrice(t_out.apply_tiers.val, t_volume) = Rat(3, 4)
    /\ UnitPrice(apply_tiers(Rat(11, 2), t_tiers).val, Rat(11, 2)) = Rat(1, 2)

\* the months whose cumulative profit is non-negative after an earlier month
\* went below -0.01
CrossingMonths(rs) ==
    {i \in 1..Len(rs) :
        /\ RLe(RZero, rs[i].cumulative_profit)
        /\ \E j \in 1..(i - 1) : RLt(rs[j].cumulative_profit, NegativeThreshold)}

\* C15: kpis.breakeven_month is the first month whose cumulative profit is
\* non-negative while some earlier month had a cumulative profit below
\* -0.01; it is absent when there is no such month, in particular when the
\* cumulative profit never goes below -0.01, however profitable the scenario.
C15_BreakevenIsFirstCrossing ==
    Returned =>
        LET rs == result.rows
            crossing == CrossingMonths(rs)
        IN  /\ crossing = {} => result.kpis.breakeven_month = None
            /\ crossing # {} =>
                  /\ result.kpis.breakeven_month # None
                  /\ \E i \in crossing :
                        /\ result.kpis.breakeven_month = RInt(rs[i].month)
                        /\ \A j \in crossing : i <= j
            /\ (\A i \in 1..Len(rs) :
                    ~RLt(rs[i].cumulative_profit, NegativeThreshold)) =>
                  result.kpis.breakeven_month = None

\* losses first, the crossing in the second of three months
C15_Witness ==
    /\ Returned
    /\ Len(result.rows) = 3
    /\ RLt(result.rows[1].cumulative_profit, NegativeThreshold)
    /\ RLe(RZero, result.rows[2].cumulative_profit)
    /\ RLe(RZero, result.rows[3].cumulative_profit)
    /\ result.kpis.breakeven_month = RInt(2)

\* the sum of profit over the returned rows of months a..b
ProfitOfMonths(a, b) ==
    Sum([i \in 1..Len(SelectSeq(result.rows, LAMBDA r : a <= r.month /\ r.month <= b))
            |-> SelectSeq(result.rows,
                          LAMBDA r : a <= r.month /\ r.month <= b)[i].profit])

\* C16: kpis.profit_year1 is the sum of profit over months 1-12 (over all
\* rows of a shorter horizon); profit_year2 is the sum over months 13-24,
\* present only if the horizon covers year 2 (24 months or more), absent
\* otherwise; profit_year3 is the sum over months 25-36, present only if the
\* horizon covers year 3 (36 months or more), absent otherwise.
C16_YearProfits ==
    Returned =>
        /\ result.kpis.profit_year1 = ProfitOfMonths(1, 12)
        /\ result.kpis.profit_year2 =
               IF months >= 24 THEN ProfitOfMonths(13, 24) ELSE None
        /\ result.kpis.profit_year3 =
               IF months >= 36 THEN ProfitOfMonths(25, 36) ELSE None

\* 37 months: three full years reported, each with its own profit, and the
\* last month in none of them
C16_Witness ==
    /\ Returned
    /\ months = 37
    /\ result.kpis.profit_year3 # None
    /\ result.kpis.profit_year2 # result.kpis.profit_year1
    /\ result.kpis.profit_year3 # result.kpis.profit_year2
    /\ result.rows[37].profit # RZero
    /\ result.kpis.total_profit #
           RAdd(RAdd(result.kpis.profit_year1, result.kpis.profit_year2),
                result.kpis.profit_year3)

\* C17: kpis.profit_status is exactly one of 'balanced', 'profitable' and
\* 'loss': 'balanced' iff |total_profit| < 1.0, otherwise 'profitable' iff
\* total_profit > 0, otherwise 'loss'; kpis.roi_percent is (total_profit /
\* total_costs) * 100 when total_costs > 0 and absent when total_costs <= 0.
C17_StatusAndRoi ==
    Returned =>
        LET k == result.kpis
            near_zero == RLt(RAbs(k.total_profit), ROne)
        IN  /\ k.total_profit = Sum(Column(result.rows, "profit"))
            /\ k.total_costs = Sum(Column(result.rows, "total_costs"))
            /\ k.profit_status \in {"balanced", "profitable", "loss"}
            /\ k.profit_status = "balanced" <=> near_zero
            /\ k.profit_status = "profitable" <=>
                  (~near_zero /\ RLt(RZero, k.total_profit))
            /\ k.profit_status = "loss" <=>
                  (~near_zero /\ ~RLt(RZero, k.total_profit))
            /\ k.roi_percent =
                  IF RLt(RZero, k.total_costs)
                  THEN RMul(RDiv(k.total_profit, k.total_costs), RInt(100))
                  ELSE None

\* a solved breakeven run on the charging plan: balanced, at an ROI of 0
C17_Witness ==
    /\ Returned
    /\ SolveMode
    /\ RLt(RZero, ReportedFee)
    /\ RLt(RZero, result.kpis.total_costs)
    /\ result.kpis.total_profit = RZero
    /\ result.kpis.profit_status = "balanced"
    /\ result.kpis.roi_percent = RZero

\* the call that has ended returned what the earlier calls with the same
\* scenario returned: the one kept in alone and the one of the other caller
AgreesWithEarlierCalls(undisturbed_only) ==
    /\ scenario \in DOMAIN alone => Outcome(CurrentFrame) = alone[scenario]
    /\ (/\ other # None
        /\ Completed(other)
        /\ other.scenario = scenario
        /\ undisturbed_only => ~other.interleaved) =>
           Outcome(CurrentFrame) = Outcome(other)

\* C18: simulate is deterministic: two calls with equal plan and scenario, on
\* the same engine or on two engines built from equal plans, in either order
\* and with other simulate calls in between, return identical rows, KPIs,
\* scenario name and plan id (or raise the same exception).
C18_SameInputSameResult ==
    (Completed(CurrentFrame) /\ ~interleaved) => AgreesWithEarlierCalls(TRUE)

\* the third call on the engine repeats the scenario of the first, after a
\* call with another scenario
C18_Witness ==
    /\ pc = "done"
    /\ SolveMode
    /\ ~interleaved
    /\ calls = 3
    /\ alone # EmptyDict
    /\ scenario \notin DOMAIN alone
    /\ other.pc = "done"
    /\ ~other.interleaved
    /\ other.scenario = scenario
    /\ Len(result.rows) = 2
    /\ result = other.result

\* the engine is as __init__ built it from the plan
EngineIntact ==
    /\ pricing_plan = BasePlan
    /\ event_fees_map = EventFeesMap(BasePlan)
    /\ optional_features = BasePlan.optional_features

\* C19: simulate never modifies the engine's state (pricing_plan,
\* _event_fees_map, _optional_features) and shares no rows between calls, so
\* under any interleaving of simulate calls on one engine each call returns
\* what it returns when it runs alone.
C19_InterleavedCallsIndependent ==
    /\ EngineIntact
    /\ Completed(CurrentFrame) => AgreesWithEarlierCalls(FALSE)

\* a call that ran interleaved with another scenario's call returned what
\* the same scenario returned when it ran on its own
C19_Witness ==
    /\ pc = "done"
    /\ SolveMode
    /\ interleaved
    /\ scenario \in DOMAIN alone
    /\ result = alone[scenario].result
    /\ other.interleaved
    /\ other.scenario # scenario
    /\ Len(other.rows) >= 1

\* a usage value outside the domain api/schemas.py declares for it:
\* spend_per_active_card_month >= 0 and avg_ticket > 0
OutOfDomain == RLt(spend_per_active, RZero) \/ RLe(avg_ticket, RZero)

\* C20: simulate fails with an invalid-value error (ValueError), and returns
\* no result, whenever a scenario value is outside its declared domain, e.g.
\* for every scenario with a negative spend_per_active_card_month.
C20_OutOfDomainRejected ==
    OutOfDomain =>
        /\ pc # "done"
        /\ result = None
        /\ pc = "failed" => error = "ValueError"

\* whether the scenario sc has the field at path
HasField(sc, path) ==
    /\ path[1] \in DOMAIN sc
    /\ Len(path) = 2 => path[2] \in DOMAIN sc[path[1]]

MissingRequired(sc) == \E path \in RequiredFields : ~HasField(sc, path)

\* C21: simulate fails with a missing-field error (KeyError) before producing
\* any row when a required scenario field is absent; the error is surfaced to
\* the caller (no result), and the engine remains usable: it is unchanged, and
\* the calls made on it afterwards return what they return otherwise.
C21_MissingFieldRaises ==
    /\ (pc # "idle" /\ MissingRequired(scenario)) =>
          /\ pc = "failed"
          /\ error = "KeyError"
          /\ result = None
          /\ calls = 2 => rows = << >> /\ m = 0
    /\ (pc = "failed" /\ error = "KeyError") => MissingRequired(scenario)
    /\ EngineIntact
    /\ (Completed(CurrentFrame) /\ ~interleaved) => AgreesWithEarlierCalls(TRUE)

\* a call failed for a missing field, and the next call on the engine, with
\* a complete scenario, returned what the other caller's call returned
C21_Witness ==
    /\ pc = "done"
    /\ ~interleaved
    /\ calls = 3
    /\ \E sc \in DOMAIN alone :
          /\ MissingRequired(sc)
          /\ alone[sc] = [raised |-> "KeyError", result |-> None]
    /\ other.pc = "done"
    /\ ~other.interleaved
    /\ other.scenario = scenario
    /\ Len(result.rows) = 2
    /\ result = other.result

\* the B2B revenue of a row at the scenario's employee fee
GivenB2BRevenue(row) ==
    RAdd(RMul(companies, platform_fee_company_month),
         RMul(row.active_cards, employee_fee_month))

\* the first pass is running, or has just ended
FirstPass == pc = "loop"

\* C22: in 'given' mode every row has rev_b2b = companies *
\* platform_fee_company_month + active_cards * employee_fee_month, with the
\* row's own active count, and kpis.required_employee_fee_month is absent; in
\* solve mode the first pass uses rev_b2b = 0 for every row.
C22_GivenModeB2BRevenue ==
    /\ (Returned /\ b2b_mode = "given") =>
          /\ \A i \in 1..Len(result.rows) :
                result.rows[i].rev_b2b = GivenB2BRevenue(result.rows[i])
          /\ result.kpis.required_employee_fee_month = None
    /\ (FirstPass /\ b2b_mode = "given") =>
          \A i \in 1..Len(rows) : rows[i].rev_b2b = GivenB2BRevenue(rows[i])
    /\ (FirstPass /\ SolveMode) =>
          \A i \in 1..Len(rows) :
             /\ rows[i].rev_b2b = RZero
             /\ rows[i].total_revenue = rows[i].rev_excl_b2b

\* a 'given' run whose card count, and with it the B2B revenue, changes from
\* one month to the next
C22_Witness ==
    /\ Returned
    /\ b2b_mode = "given"
    /\ employee_fee_month = RInt(3)
    /\ Len(result.rows) = MaxHorizon
    /\ result.rows[1].active_cards # result.rows[2].active_cards
    /\ RLt(RZero, result.rows[2].active_cards)
    /\ result.rows[1].rev_b2b # result.rows[2].rev_b2b
    /\ result.rows[2].rev_b2b = GivenB2BRevenue(result.rows[2])

\* the event fee of the plan for an event type, None if the plan has none
PlanEventFee(key) ==
    LET fees == FieldOr(pricing_plan, "event_fees", << >>)
        hits == {i \in 1..Len(fees) : fees[i].key = key}
    IN  IF hits = {} THEN None ELSE fees[CHOOSE i \in hits : TRUE]

MandatoryEvent(key) ==
    PlanEventFee(key) # None /\ FieldOr(PlanEventFee(key), "mandatory", FALSE)

\* toggles.event_fees of the scenario
ScenarioEventToggles == FieldOr(toggles, "event_fees", EmptyDict)

\* the scenario has a toggle for the event type
HasToggle(key) == key \in DOMAIN ScenarioEventToggles

\* the toggle is on in the scenario
ToggledOn(key) == HasToggle(key) /\ ScenarioEventToggles[key]

\* the toggle is explicitly off in the scenario
ToggledOff(key) == HasToggle(key) /\ ~ScenarioEventToggles[key]

\* the toggle is on in the scenario or, the scenario having none, the plan
\* enables the fee by default
ToggledOnOrDefault(key) ==
    IF HasToggle(key) THEN ScenarioEventToggles[key]
    ELSE PlanEventFee(key) # None
         /\ FieldOr(PlanEventFee(key), "enabled_by_default", FALSE)

\* the units of an event type in row i of the result
EventUnits(i, key) ==
    LET row == result.rows[i]
        before == IF i = 1 THEN start_active ELSE result.rows[i - 1].active_cards
        rate(name, default) == FieldOr(ops, name, default)
    IN  CASE key = "card_issue" -> row.issued_cards
          [] key = "plastic_personalization" -> row.issued_physical
          [] key = "kyc_attempt" ->
                RMul(row.issued_cards, rate("kyc_attempts_per_new_user", ROne))
          [] key = "account_documents" ->
                RMul(row.issued_cards, rate("doc_confirm_rate_per_new_user", RZero))
          [] key = "dispute" ->
                RMul(row.tx_count, rate("dispute_rate_per_tx", RZero))
          [] key = "sms" ->
                RMul(row.active_cards, rate("sms_per_active_user_month", RZero))
          [] key = "pin_change" ->
                RMul(row.active_cards,
                     rate("pin_changes_per_active_user_month", RZero))
          [] key = "account_closure" ->
                RMul(RMul(before, churn_rate),
                     rate("closures_per_churned_user", RZero))

\* what an event type costs in row i when it is charged
EventCharge(i, key) ==
    IF PlanEventFee(key) = None THEN RZero
    ELSE RMul(EventUnits(i, key), PlanEventFee(key).amount)

\* the charges of the event types in K, added up
EventCharges(i, K) == SumValues([k \in K |-> EventCharge(i, k)])

OtherEvents == EventKeys \ {"card_issue"}

\* C23 as stated: the cost of an event type other than card issuance enters
\* cost_events only if its toggle in the scenario is on or its fee is
\* mandatory, a mandatory fee enters whatever its toggle, and card issuance
\* is charged on the issued cards regardless of its toggle.
C23_Original ==
    Returned =>
        \A i \in 1..Len(result.rows) :
           \E K \in SUBSET OtherEvents :
              /\ \A k \in K : ToggledOn(k) \/ MandatoryEvent(k)
              /\ \A k \in OtherEvents : MandatoryEvent(k) => k \in K
              /\ result.rows[i].cost_events =
                    RAdd(EventCharge(i, "card_issue"), EventCharges(i, K))

\* C23 amended: the cost of an event type other than card issuance enters
\* cost_events exactly if its fee is mandatory, or its toggle in the scenario
\* is on, or the scenario has no toggle for it and the plan enables the fee by
\* default; card issuance is charged on the issued cards regardless of its
\* toggle.
C23_EventFeeGating ==
    Returned =>
        \A i \in 1..Len(result.rows) :
           result.rows[i].cost_events =
              RAdd(EventCharge(i, "card_issue"),
                   EventCharges(i, {k \in OtherEvents :
                                      MandatoryEvent(k) \/ ToggledOnOrDefault(k)}))

\* every event toggle explicitly off, card issuance and the mandatory KYC fee
\* included: the issued cards are charged for both and for nothing else
C23_Witness ==
    /\ Returned
    /\ pricing_plan = EventPlan
    /\ \A k \in EventKeys : ToggledOff(k)
    /\ MandatoryEvent("kyc_attempt")
    /\ RLt(RZero, result.rows[1].issued_cards)
    /\ RLt(RZero, result.rows[1].active_cards)
    /\ result.rows[1].cost_events =
          RAdd(EventCharge(1, "card_issue"), EventCharge(1, "kyc_attempt"))
    /\ RLt(EventCharge(1, "card_issue"), result.rows[1].cost_events)

\* the manufacturing bands of the plan in force
ManufacturingTiers ==
    FieldOr(FieldOr(FieldOr(pricing_plan, "physical_cards", EmptyDict),
                    "manufacturing", EmptyDict), "tiers", << >>)

\* the band of a manufacturing tier holds the volume v
BandHolds(tier, v) ==
    /\ RLe(RInt(tier.min_batch), v)
    /\ tier.max_batch = None \/ RLe(v, tier.max_batch)

\* the manufacturing tiers whose band holds v
BandsHolding(v) ==
    {j \in 1..Len(ManufacturingTiers) : BandHolds(ManufacturingTiers[j], v)}

\* v is below the band of every manufacturing tier
BelowLowestBand(v) ==
    \A j \in 1..Len(ManufacturingTiers) :
       RLt(v, RInt(ManufacturingTiers[j].min_batch))

ManufacturingOn == FieldOr(toggles, "physical_manufacturing", FALSE)
DeliveryOn == FieldOr(toggles, "physical_delivery", FALSE)

\* C24: with the physical_manufacturing toggle on and issued_physical > 0 the
\* manufacturing cost is issued_physical times the price of the first tier
\* whose band holds issued_physical; the first tier's price is used instead
\* only when no tier matches and the volume is below the lowest band.
\* Manufacturing and delivery cost are 0 when issued_physical is 0 or the
\* respective toggle is off. (Stated on the rows without a delivery cost,
\* where cost_physical is the manufacturing cost.)
C24_ManufacturingByBand ==
    Returned =>
        \A i \in 1..Len(result.rows) :
           LET row == result.rows[i]
               v == row.issued_physical
               first == CHOOSE j \in BandsHolding(v) :
                           \A k \in BandsHolding(v) : j <= k
               at_first_price == RMul(v, ManufacturingTiers[1].price)
           IN  /\ (v = RZero \/ (~ManufacturingOn /\ ~DeliveryOn)) =>
                     row.cost_physical = RZero
               /\ (RLt(RZero, v) /\ ManufacturingOn /\ ~DeliveryOn
                     /\ Len(ManufacturingTiers) > 0) =>
                     IF BandsHolding(v) # {}
                     THEN row.cost_physical = RMul(v, ManufacturingTiers[first].price)
                     ELSE IF BelowLowestBand(v)
                          THEN row.cost_physical = at_first_price
                          ELSE row.cost_physical # at_first_price

\* the delivery section of the plan in force
DeliveryConfig ==
    FieldOr(FieldOr(pricing_plan, "physical_cards", EmptyDict), "delivery", EmptyDict)

DeliveryMethods == FieldOr(DeliveryConfig, "methods", << >>)

\* the plan's default method ("dhl_tracked" if the plan names none)
DefaultMethod == FieldOr(DeliveryConfig, "default_method", "dhl_tracked")

\* the delivery method with the given key is listed in the plan
Listed(key) == \E j \in 1..Len(DeliveryMethods) : DeliveryMethods[j].key = key

\* the price of a listed delivery method
MethodPrice(key) ==
    DeliveryMethods[CHOOSE j \in 1..Len(DeliveryMethods) :
                       /\ DeliveryMethods[j].key = key
                       /\ \A k \in 1..(j - 1) : DeliveryMethods[k].key # key].price

\* the scenario names a delivery method
NamesMethod == "delivery_method" \in DOMAIN toggles

\* C25: with the physical_delivery toggle on and issued_physical > 0 the
\* delivery cost is issued_physical times the price of the method the
\* scenario names; if that method is not available the plan's default method
\* is used, and the first listed method only if the default is not in the
\* plan. (Stated on the rows without a manufacturing cost, where
\* cost_physical is the delivery cost.)
C25_DeliveryMethodFallback ==
    Returned =>
        \A i \in 1..Len(result.rows) :
           LET row == result.rows[i]
               v == row.issued_physical
               price == IF NamesMethod /\ Listed(toggles.delivery_method)
                        THEN MethodPrice(toggles.delivery_method)
                        ELSE IF Listed(DefaultMethod) THEN MethodPrice(DefaultMethod)
                        ELSE DeliveryMethods[1].price
           IN  (RLt(RZero, v) /\ DeliveryOn /\ ~ManufacturingOn
                  /\ Len(DeliveryMethods) > 0) =>
                  row.cost_physical = RMul(v, price)

\* simulate raised in the handling of the request
SimulateFailed == endpoint # "" /\ pc = "failed"

Answered == status # 0

\* C26: on every simulation endpoint (run, compare, sensitivity) a
\* missing-field or invalid-value error of the engine is answered with a
\* client error (4xx) and any other engine failure with a server error (500);
\* no endpoint answers 200 when simulate failed.
C26_EngineErrorsMapped ==
    (Answered /\ SimulateFailed) =>
        /\ error \in {"KeyError", "ValueError"} => status \in 400..499
        /\ error \notin {"KeyError", "ValueError"} => status = 500
        /\ status # 200

\* the fields of a row the fee re-application may change
ReappliedFields == {"rev_b2b", "total_revenue", "profit", "cumulative_profit"}

\* the rows differ in the re-applied fields at most
SameButReapplied(before, after) ==
    /\ DOMAIN after = DOMAIN before
    /\ \A f \in DOMAIN before \ ReappliedFields : after[f] = before[f]

\* C27: the fee re-application pass of solve mode changes only rev_b2b,
\* total_revenue, profit and cumulative_profit of each row: every other field
\* is as the first pass left it, and the number and order of the rows is
\* unchanged.
C27_ReapplicationFrame ==
    [][ pc = "repass" =>
          /\ Len(rows') = Len(rows)
          /\ \A i \in 1..Len(rows) :
                /\ SameButReapplied(rows[i], rows'[i])
                /\ i # row_index => rows'[i] = rows[i] ]_vars

\* the second pass has gone over every row with a fee above zero: the B2B
\* revenue of the rows is no longer the 0 of the first pass
C27_Witness ==
    /\ pc = "repass"
    /\ row_index = Len(rows) + 1
    /\ Len(rows) = MaxHorizon
    /\ RLt(RZero, required_employee_fee)
    /\ \A i \in 1..Len(rows) :
          /\ rows[i].month = i
          /\ RLt(RZero, rows[i].rev_b2b)
          /\ rows[i].total_costs = rows[i].costs_excl_b2b

\* the seven cost components of a row, added up
CostComponents(row) ==
    Sum(<< row.cost_fixed, row.cost_oneoff, row.cost_active_cards, row.cost_auth,
           row.cost_3ds, row.cost_events, row.cost_physical >>)

\* the accounting identities of one row
RowBalanced(row) ==
    /\ row.rev_excl_b2b = RAdd(row.rev_partner, row.rev_interchange)
    /\ row.total_revenue = RAdd(row.rev_excl_b2b, row.rev_b2b)
    /\ row.total_costs = row.costs_excl_b2b
    /\ row.costs_excl_b2b = CostComponents(row)
    /\ row.profit = RSub(row.total_revenue, row.total_costs)

\* C28: in every row of every returned result, in both B2B modes,
\* rev_excl_b2b = rev_partner + rev_interchange, total_revenue = rev_excl_b2b
\* + rev_b2b, total_costs = costs_excl_b2b = the sum of the seven cost fields,
\* profit = total_revenue - total_costs, and kpis.total_profit =
\* kpis.total_revenue - kpis.total_costs.
C28_AccountingIdentities ==
    Returned =>
        /\ \A i \in 1..Len(result.rows) : RowBalanced(result.rows[i])
        /\ result.kpis.total_profit =
              RSub(result.kpis.total_revenue, result.kpis.total_costs)

\* a solve-mode result with a fee above zero and every kind of monthly cost
\* and revenue in its first row
C28_Witness ==
    /\ Returned
    /\ SolveMode
    /\ RLt(RZero, result.kpis.required_employee_fee_month)
    /\ Len(result.rows) = MaxHorizon
    /\ LET row == result.rows[1]
       IN  /\ \A f \in {"cost_fixed", "cost_active_cards", "cost_auth", "cost_3ds",
                        "cost_events", "cost_physical", "rev_partner",
                        "rev_interchange", "rev_b2b"} : RLt(RZero, row[f])
           /\ row.profit = RSub(row.total_revenue, row.total_costs)
           /\ row.profit # RZero
    /\ RLt(RZero, result.kpis.total_costs)

\* the fee quotient before the max(0.0, ...)
UnclampedQuotient == RDiv(RAdd(Shortfall, TargetProfit), CardMonths)

SolvedOverCardMonths ==
    /\ Returned
    /\ SolveMode
    /\ target_months >= 1
    /\ RLt(RZero, CardMonths)

\* C29: in solve mode with target months >= 1 and a positive sum of
\* active_cards over the solve window, after the fee has been re-applied the
\* profit summed over the first min(target months, horizon) rows is never
\* below the target profit (0 for breakeven, the amount for profit, amount *
\* non-B2B revenue for margin), and it equals the target profit exactly when
\* the unclamped fee quotient is >= 0.
C29_WindowProfitMeetsTarget ==
    SolvedOverCardMonths =>
        /\ RLe(TargetProfit, WindowProfit)
        /\ (WindowProfit = TargetProfit) <=> RLe(RZero, UnclampedQuotient)

\* a profit target met to the cent by a positive fee, over a window shorter
\* than the horizon
C29_Witness ==
    /\ SolvedOverCardMonths
    /\ target_type = "profit"
    /\ RLt(RZero, TargetProfit)
    /\ WindowLen < Len(result.rows)
    /\ RLt(RZero, UnclampedQuotient)
    /\ RLt(RZero, ReportedFee)
    /\ WindowProfit = TargetProfit

OtherMode == b2b_mode \notin {"given", "solve_employee_fee"}

====
